---- MODULE Spec2Model ----
(***************************************************************************)
(* The CDP <-> DAP bridge of packages/vscode-extension/src/debugging/      *)
(* DebugAdapter.ts as a state machine.                                     *)
(*                                                                         *)
(* One action is one macrotask of the Node event loop: a websocket event   *)
(* handler or an editor request together with every microtask it queues    *)
(* (the continuations of promises settled inside it).  A continuation that *)
(* waits for a runtime answer is kept in cdpMessagePromises, beside the    *)
(* resolve/reject pair the code stores there, and runs inside the action   *)
(* that handles the answer.                                                *)
(***************************************************************************)
EXTENDS Integers, Sequences, FiniteSets, TLC

VARIABLES
    connection,          \* readyState of the websocket
    sourceMapAliases,    \* configuration.sourceMapAliases
    expoPreludeLineCount,\* configuration.expoPreludeLineCount
    threads,             \* this.threads
    sourceMaps,          \* this.sourceMaps: <<url, scriptId, consumer, lineOffset>>
    parsing,             \* scriptParsed handlers suspended at `await new SourceMapConsumer`
    cdpMessageId,        \* this.cdpMessageId
    cdpMessagePromises,  \* this.cdpMessagePromises, with the awaiting continuation
    bpObjs,              \* the MyBreakpoint objects ever created (the heap)
    breakpoints,         \* this.breakpoints: path -> list of MyBreakpoint references
    requests,            \* the setBreakPointsRequest calls and their Promise.all
    rtNextBreakpointId,  \* the runtime's next fresh breakpoint id
    sentIds,             \* history: the id of every sendCDPMessage call, in call order
    rtRemoved,           \* history: the breakpoint ids named in Debugger.removeBreakpoint
    answered,            \* history: ids for which a result/error message was handled
    outbox,              \* what the last step wrote to the websocket
    dapOut,              \* what the last step sent to the editor
    received,            \* how many events of the runtime and requests of the editor came
                         \* (stale: the first handlers of `parsing` that were suspended
                         \* before the last executionContextsCleared)
    last,                \* the last step taken
    pausedStackFrames,   \* this.pausedStackFrames
    pausedScopeChains,   \* this.pausedScopeChains
    variableStore,       \* this.variableStore
    pauseTasks,          \* the handleDebuggerPaused calls that rebuild an exception's stack
    handed,              \* history: the variablesReference handles sent to the editor
    retryCall            \* a call of retry(fn, retriesLeft) of utilities/retry.ts

vars == <<connection, sourceMapAliases, expoPreludeLineCount, threads, sourceMaps,
          parsing, cdpMessageId, cdpMessagePromises, bpObjs, breakpoints, requests,
          rtNextBreakpointId, sentIds, rtRemoved, answered, outbox, dapOut, received, last,
          pausedStackFrames, pausedScopeChains, variableStore, pauseTasks, handed,
          retryCall>>

\* the variables of the debug adapter
adapterVars ==
    <<connection, sourceMapAliases, expoPreludeLineCount, threads, sourceMaps,
      parsing, cdpMessageId, cdpMessagePromises, bpObjs, breakpoints, requests,
      rtNextBreakpointId, sentIds, rtRemoved, answered, outbox, dapOut, received, last,
      pausedStackFrames, pausedScopeChains, variableStore, pauseTasks, handed>>

\* what the Pause Reconstructor and the Reference Store own
pauseVars == <<pausedStackFrames, pausedScopeChains, variableStore, pauseTasks, handed>>

\* what the Breakpoint Manager and the Position Translator own
breakpointVars == <<sourceMaps, parsing, bpObjs, breakpoints, requests, rtNextBreakpointId>>

----------------------------------------------------------------------------
(* Bounds of the model *)

\* sendCDPMessage calls after the handshake
MaxMessages == 3
\* setBreakpoints requests of the editor
MaxRequests == 2
\* Debugger.scriptParsed events of the runtime
MaxScripts == 2
\* Runtime.executionContextsCleared events
MaxClears == 1
\* Runtime.executionContextCreated events
MaxContexts == 1
\* Debugger.paused events
MaxPauses == 2
\* Debugger.resumed events
MaxResumes == 1
\* Runtime.consoleAPICalled events
MaxLogs == 1
\* stackTrace, scopes, variables and evaluate requests of the editor
MaxEditorRequests == 2
\* calls of fn in one call of retry
MaxCalls == 4

(* Program constants *)

\* `undefined`: an absent column, an id never set
Undefined == 0
\* the sendCDPMessage calls of the "open" handler
HandshakeLength == 7

Null == [null |-> TRUE]

----------------------------------------------------------------------------
(* Sequences *)

Range(s) == {s[i] : i \in DOMAIN s}

SeqMap(Op(_), s) == [i \in DOMAIN s |-> Op(s[i])]

RECURSIVE Flatten(_)
Flatten(ss) == IF ss = <<>> THEN <<>> ELSE Head(ss) \o Flatten(Tail(ss))

\* the elements of s in order of first occurrence (the insertion order of a Set)
RECURSIVE Unique(_)
Unique(s) ==
    IF s = <<>> THEN <<>>
    ELSE <<Head(s)>> \o Unique(SelectSeq(Tail(s), LAMBDA x : x # Head(s)))

----------------------------------------------------------------------------
(* Paths: a path is the sequence of its segments, "/app/a.js" is <<"app","a.js">> *)

IsPrefix(p, s) == Len(p) <= Len(s) /\ SubSeq(s, 1, Len(p)) = p

\* path.normalize of an absolute path: ".." removes the segment before it
RECURSIVE Normalize(_, _)
Normalize(done, rest) ==
    IF rest = <<>> THEN done
    ELSE IF Head(rest) = ".."
         THEN Normalize(IF done = <<>> THEN <<>> ELSE SubSeq(done, 1, Len(done) - 1),
                        Tail(rest))
         ELSE Normalize(Append(done, Head(rest)), Tail(rest))

PathJoin(a, b) == Normalize(<<>>, a \o b)

RECURSIVE CommonPrefixLen(_, _)
CommonPrefixLen(a, b) ==
    IF a = <<>> \/ b = <<>> \/ Head(a) # Head(b) THEN 0
    ELSE 1 + CommonPrefixLen(Tail(a), Tail(b))

\* path.relative(from, to)
PathRelative(from, to) ==
    LET k == CommonPrefixLen(from, to)
    IN  [i \in 1..(Len(from) - k) |-> ".."] \o SubSeq(to, k + 1, Len(to))

toAbsoluteFilePath(sourceMapPath) ==
    LET hits == SelectSeq(sourceMapAliases, LAMBDA a : IsPrefix(a[1], sourceMapPath))
    IN  IF hits = <<>> THEN sourceMapPath
        ELSE PathJoin(Head(hits)[2],
                      SubSeq(sourceMapPath, Len(Head(hits)[1]) + 1, Len(sourceMapPath)))

\* `absoluteFilePath.startsWith(absoluteFilePath)` holds of every alias, so the first
\* alias of the list is used whatever the file
toSourceMapFilePath(sourceAbsoluteFilePath) ==
    LET hits == SelectSeq(sourceMapAliases, LAMBDA a : IsPrefix(a[2], a[2]))
    IN  IF hits = <<>> THEN sourceAbsoluteFilePath
        ELSE PathJoin(Head(hits)[1], PathRelative(Head(hits)[2], sourceAbsoluteFilePath))

----------------------------------------------------------------------------
(* What the runtime and the editor can send (the inputs of the model) *)

\* the file the editor sets breakpoints in: /app/a.js
FileA == <<"app", "a.js">>
EditorPaths == {FileA}

\* configuration.sourceMapAliases: the bundler names /app as /@
AliasConfigs == { << <<(<<"@">>), (<<"app">>)>> >> }

Mapping(gl, gc, src, ol, oc) ==
    [generatedLine |-> gl, generatedColumn |-> gc, source |-> src,
     originalLine |-> ol, originalColumn |-> oc]

\* the decoded JSON of an inline source map: its sources and its mappings in generated order
BundleMap(prefix) ==
    [sources |-> << <<"__prelude__">>, prefix \o <<"a.js">> >>,
     mappings |-> << Mapping(1, 0, <<"__prelude__">>, 1, 0),
                     Mapping(3, 0, prefix \o <<"a.js">>, 10, 0),
                     Mapping(5, 4, prefix \o <<"a.js">>, 20, 2) >>]

BundleURL ==
    [scheme |-> "http", host |-> "localhost", port |-> "8081", path |-> "/index.bundle", search |-> ""]
ChunkURL ==
    [scheme |-> "http", host |-> "localhost", port |-> "8081", path |-> "/chunk.bundle", search |-> ""]

\* the inline source map of a script that holds a.js alone
ChunkMap ==
    [sources |-> << <<"@", "a.js">> >>,
     mappings |-> << Mapping(2, 0, <<"@", "a.js">>, 10, 0) >>]

\* the main bundle as the device names it, and its map when the bundle holds the
\* "__env__" module; the map has fewer mappings than BundleMap
DeviceBundleURL ==
    [scheme |-> "http", host |-> "10.0.2.2", port |-> "8081", path |-> "/index.bundle", search |-> ""]

EnvBundleMap ==
    [sources |-> << <<"__prelude__">>, <<"__env__">>, <<"@", "a.js">> >>,
     mappings |-> << Mapping(1, 0, <<"__prelude__">>, 1, 0),
                     Mapping(3, 2, <<"@", "a.js">>, 12, 0) >>]

\* configuration.expoPreludeLineCount
PreludeLineCounts == {0, 2}

\* configuration.sourceMapAliases, also with a second alias before the one of /app
TranslatorAliasConfigs ==
    AliasConfigs \cup { << <<(<<"@lib">>), (<<"lib">>)>>, <<(<<"@">>), (<<"app">>)>> >> }

\* scripts for the Position Translator: the main bundle, a chunk, and the main bundle
\* loaded again under the device's address
TranslatorScripts ==
    { [url |-> BundleURL, scriptId |-> "1", sourceMapURL |-> "data:", sourceMap |-> BundleMap(<<"@">>)],
      [url |-> ChunkURL, scriptId |-> "2", sourceMapURL |-> "data:", sourceMap |-> ChunkMap],
      [url |-> DeviceBundleURL, scriptId |-> "4", sourceMapURL |-> "data:", sourceMap |-> EnvBundleMap] }

\* params of Debugger.scriptParsed: the main bundle and a chunk with inline source maps,
\* and a script whose source map is not inline
Scripts ==
    { [url |-> BundleURL, scriptId |-> "1", sourceMapURL |-> "data:", sourceMap |-> BundleMap(<<"@">>)],
      [url |-> ChunkURL, scriptId |-> "2", sourceMapURL |-> "data:", sourceMap |-> ChunkMap],
      [url |-> ChunkURL, scriptId |-> "3", sourceMapURL |-> "chunk.map", sourceMap |-> Null] }

\* SourceBreakpoint: a 1-based line and an optional 1-based column; line 10 is in
\* both maps, line 20 in the map of the main bundle alone
RequestedLines == {10, 20}
RequestedColumns == {Undefined}
SourceBreakpoints == [line : RequestedLines, column : RequestedColumns]

\* args.breakpoints: the editor names each (line, column) of a file once
BreakpointArgs ==
    {<<>>} \cup {<<b>> : b \in SourceBreakpoints}
           \cup {bc \in SourceBreakpoints \X SourceBreakpoints : bc[1] # bc[2]}

\* the error member of a CDP response
ErrorPayloads ==
    { [code |-> -32000, message |-> "Invalid breakpoint"],
      [code |-> -32601, message |-> "Method not found", data |-> "detail"] }

----------------------------------------------------------------------------
(* Position Translator *)

Before(m, n) ==
    \/ m.originalLine < n.originalLine
    \/ m.originalLine = n.originalLine /\ m.originalColumn < n.originalColumn
    \/ m.originalLine = n.originalLine /\ m.originalColumn = n.originalColumn
       /\ \/ m.generatedLine < n.generatedLine
          \/ m.generatedLine = n.generatedLine /\ m.generatedColumn <= n.generatedColumn

\* SourceMapConsumer.generatedPositionFor with bias LEAST_UPPER_BOUND: the first mapping
\* of the source at or after (line, column) in original order, which may lie on a later line
generatedPositionFor(consumer, source, line, column) ==
    LET cands == {m \in Range(consumer.mappings) :
                    /\ m.source = source
                    /\ \/ m.originalLine > line
                       \/ m.originalLine = line /\ m.originalColumn >= column}
    IN  IF cands = {} THEN Null
        ELSE LET m == CHOOSE x \in cands : \A y \in cands : Before(x, y)
             IN  [line |-> m.generatedLine, column |-> m.generatedColumn]

\* as toGeneratedPosition, with the URL of the first map that yields a position
toGeneratedPositionFirstURL(maps, file, lineNumber1Based, columnNumber0Based) ==
    LET sourceMapFilePath == toSourceMapFilePath(file)
        hits == SelectSeq(maps, LAMBDA sm :
                    generatedPositionFor(sm[3], sourceMapFilePath,
                                         lineNumber1Based, columnNumber0Based) # Null)
    IN  IF hits = <<>> THEN Null
        ELSE LET pos == generatedPositionFor(hits[Len(hits)][3], sourceMapFilePath,
                                             lineNumber1Based, columnNumber0Based)
             IN  [source |-> hits[1][1],
                  lineNumber1Based |-> pos.line + hits[Len(hits)][4],
                  columnNumber0Based |-> pos.column]

toGeneratedPosition(maps, file, lineNumber1Based, columnNumber0Based) ==
    LET sourceMapFilePath == toSourceMapFilePath(file)
        hits == SelectSeq(maps, LAMBDA sm :
                    generatedPositionFor(sm[3], sourceMapFilePath,
                                         lineNumber1Based, columnNumber0Based) # Null)
    IN  IF hits = <<>> THEN Null
        ELSE LET sm == hits[Len(hits)]
                 pos == generatedPositionFor(sm[3], sourceMapFilePath,
                                             lineNumber1Based, columnNumber0Based)
             IN  [source |-> sm[1],
                  lineNumber1Based |-> pos.line + sm[4],
                  columnNumber0Based |-> pos.column]

\* a || b on numbers: 0 and undefined are falsy
OrElse(a, b) == IF a = Undefined THEN b ELSE a

----------------------------------------------------------------------------
(* Session Controller / Transport *)

EmptyObject == <<>>

\* `++this.cdpMessageId`
NextMessageId(current) == current + 1

RECURSIVE MessageIds(_, _)
MessageIds(current, n) ==
    IF n = 0 THEN <<>>
    ELSE <<NextMessageId(current)>> \o MessageIds(NextMessageId(current), n - 1)

\* one sendCDPMessage call and what awaits the promise it returns
Call(method, params, cont) == [method |-> method, params |-> params, cont |-> cont]

NoContinuation == [kind |-> "none"]

\* the promises a handler leaves behind when it makes `calls` in order, starting from
\* the map `promises`: Map.set replaces an entry that has the same key
PromisesAfter(promises, calls, ids) ==
    [k \in DOMAIN promises \cup Range(ids) |->
        IF k \in Range(ids)
        THEN LET i == CHOOSE i \in DOMAIN ids :
                        ids[i] = k /\ \A j \in DOMAIN ids : j > i => ids[j] # k
             IN  [method |-> calls[i].method, cont |-> calls[i].cont]
        ELSE promises[k]]

\* MaxMessages bounds the messages sent after the handshake; the requests for the
\* entries of one stack, sent together under one Promise.all, count as one of them
sendCDPMessage(calls, promises) ==
    LET ids == MessageIds(cdpMessageId, Len(calls))
        entryFetchesBeyondFirst ==
            Cardinality(UNION {{<<t, j>> : j \in 2..pauseTasks[t].entries} :
                                  t \in DOMAIN pauseTasks})
        counted == IF calls # <<>>
                      /\ \A i \in DOMAIN calls : /\ calls[i].cont.kind = "handleDebuggerPaused"
                                                 /\ calls[i].cont.stage = 3
                   THEN 1 ELSE Len(calls)
    IN  /\ Len(sentIds) - entryFetchesBeyondFirst + counted <= HandshakeLength + MaxMessages
        /\ cdpMessageId' = IF calls = <<>> THEN cdpMessageId ELSE ids[Len(ids)]
        /\ outbox' = [i \in DOMAIN calls |->
                        [id |-> ids[i], method |-> calls[i].method, params |-> calls[i].params]]
        /\ cdpMessagePromises' = PromisesAfter(promises, calls, ids)
        /\ sentIds' = sentIds \o ids
        /\ rtRemoved' = rtRemoved \cup {calls[i].params.breakpointId :
                                           i \in {j \in DOMAIN calls :
                                                     calls[j].method = "Debugger.removeBreakpoint"}}

HandshakeMethods ==
    << "FuseboxClient.setClientMetadata", "Runtime.enable", "Debugger.enable",
       "Debugger.setPauseOnExceptions", "Debugger.setAsyncCallStackDepth",
       "Debugger.setBlackboxPatterns", "Runtime.runIfWaitingForDebugger" >>

\* connection.on("open")
OnOpen ==
    /\ connection = "connecting"
    /\ connection' = "open"
    /\ sendCDPMessage([i \in DOMAIN HandshakeMethods |->
                          Call(HandshakeMethods[i], EmptyObject, NoContinuation)],
                      cdpMessagePromises)
    /\ dapOut' = <<>>
    /\ UNCHANGED retryCall
    /\ last' = [op |-> "open"]
    /\ UNCHANGED pauseVars
    /\ UNCHANGED <<sourceMapAliases, expoPreludeLineCount, threads, sourceMaps, parsing,
                   bpObjs, breakpoints, requests, rtNextBreakpointId, answered, received>>

TerminatedEvent == [type |-> "event", event |-> "terminated"]

\* as OnClose, rejecting what is pending and emptying the map
OnCloseRejectingPending ==
    /\ connection \in {"connecting", "open"}
    /\ connection' = "closed"
    /\ dapOut' = <<TerminatedEvent>>
    /\ outbox' = <<>>
    /\ UNCHANGED retryCall
    /\ last' = [op |-> "close"]
    /\ cdpMessagePromises' = <<>>
    /\ requests' = [r \in DOMAIN requests |->
                      [requests[r] EXCEPT !.status = IF @ = "pending" THEN "failed" ELSE @]]
    /\ UNCHANGED pauseVars
    /\ UNCHANGED <<sourceMapAliases, expoPreludeLineCount, threads, sourceMaps, parsing,
                   cdpMessageId, bpObjs, breakpoints, rtNextBreakpointId, sentIds, rtRemoved,
                   answered, received>>

\* connection.on("close")
OnClose ==
    /\ connection \in {"connecting", "open"}
    /\ connection' = "closed"
    /\ dapOut' = <<TerminatedEvent>>
    /\ outbox' = <<>>
    /\ UNCHANGED retryCall
    /\ last' = [op |-> "close"]
    /\ UNCHANGED pauseVars
    /\ UNCHANGED <<sourceMapAliases, expoPreludeLineCount, threads, sourceMaps, parsing,
                   cdpMessageId, cdpMessagePromises, bpObjs, breakpoints, requests,
                   rtNextBreakpointId, sentIds, rtRemoved, answered, received>>

----------------------------------------------------------------------------
(* Breakpoint Manager *)

\* new MyBreakpoint(false, line, column): no id yet
MyBreakpoint(verified, line, column) ==
    [verified |-> verified, line |-> line, column |-> column, id |-> Undefined]

\* this.breakpoints.get(path) || []
BreakpointsOf(path) ==
    IF path \in DOMAIN breakpoints THEN breakpoints[path] ELSE <<>>

SameLocation(a, b) == a.line = b.line /\ a.column = b.column

\* the synchronous part of setCDPBreakpoint: the request sent when the position resolves
setCDPBreakpoint(maps, file, line, column, cont) ==
    LET generatedPos == toGeneratedPosition(maps, file, line, column)
    IN  IF generatedPos # Null
        THEN << Call("Debugger.setBreakpointByUrl",
                     [lineNumber |-> generatedPos.lineNumber1Based - 1,
                      url |-> generatedPos.source,
                      columnNumber |-> generatedPos.columnNumber0Based,
                      condition |-> ""],
                     cont) >>
        ELSE <<>>

\* as BreakpointIdOf, reading `result.id`
BreakpointIdOfWrongField(result) ==
    IF "id" \in DOMAIN result THEN result.id ELSE Undefined

\* the rest of setCDPBreakpoint: the id of the answer, Undefined standing for its null
BreakpointIdOf(result) ==
    IF "breakpointId" \in DOMAIN result THEN result.breakpointId ELSE Undefined

RemoveBreakpointCall(bp) ==
    Call("Debugger.removeBreakpoint", [breakpointId |-> bp.id], NoContinuation)

\* as ReuseOrCreate, with a new object for every requested breakpoint
RECURSIVE ReuseOrCreateAlwaysNew(_, _, _, _)
ReuseOrCreateAlwaysNew(args, previousBreakpoints, heap, acc) ==
    IF args = <<>> THEN [heap |-> heap, breakpoints |-> acc]
    ELSE ReuseOrCreateAlwaysNew(Tail(args), previousBreakpoints,
                                Append(heap, MyBreakpoint(FALSE, Head(args).line,
                                                          Head(args).column)),
                                Append(acc, Len(heap) + 1))

\* args.breakpoints.map(...): a previous breakpoint of the same line and column is
\* reused, any other is a new object
RECURSIVE ReuseOrCreate(_, _, _, _)
ReuseOrCreate(args, previousBreakpoints, heap, acc) ==
    IF args = <<>> THEN [heap |-> heap, breakpoints |-> acc]
    ELSE LET bp == Head(args)
             found == SelectSeq(previousBreakpoints, LAMBDA o : SameLocation(heap[o], bp))
         IN  IF found # <<>>
             THEN ReuseOrCreate(Tail(args), previousBreakpoints, heap, Append(acc, Head(found)))
             ELSE ReuseOrCreate(Tail(args), previousBreakpoints,
                                Append(heap, MyBreakpoint(FALSE, bp.line, bp.column)),
                                Append(acc, Len(heap) + 1))

\* as RemovedBreakpoints, without the test of `bp.verified`
RemovedBreakpointsUnverifiedToo(previousBreakpoints, newBreakpoints, heap) ==
    SelectSeq(previousBreakpoints, LAMBDA o :
        ~ \E i \in DOMAIN newBreakpoints : SameLocation(heap[newBreakpoints[i]], heap[o]))

\* the previous breakpoints whose removal setBreakPointsRequest asks of the runtime
RemovedBreakpoints(previousBreakpoints, newBreakpoints, heap) ==
    SelectSeq(previousBreakpoints, LAMBDA o :
        /\ heap[o].verified
        /\ ~ \E i \in DOMAIN newBreakpoints : SameLocation(heap[newBreakpoints[i]], heap[o]))

\* what the request found tracked: for each breakpoint of its list that comes from the
\* previous list, the verified flag and id it had when the request arrived
TrackedBefore(previousBreakpoints, list) ==
    [i \in DOMAIN list |->
        IF list[i] \in Range(previousBreakpoints)
        THEN [verified |-> bpObjs[list[i]].verified, id |-> bpObjs[list[i]].id]
        ELSE Null]

\* the body of the setBreakpoints response: the breakpoint objects as they are when sent
BreakpointsResponse(r, list, heap) ==
    [type |-> "response", command |-> "setBreakpoints", request |-> r,
     breakpoints |-> [i \in DOMAIN list |->
        [ref |-> list[i], verified |-> heap[list[i]].verified, line |-> heap[list[i]].line,
         column |-> heap[list[i]].column, id |-> heap[list[i]].id]]]

setBreakPointsRequest(sourcePath, args) ==
    LET previousBreakpoints == BreakpointsOf(sourcePath)
        made == ReuseOrCreate(args, previousBreakpoints, bpObjs, <<>>)
        heap == made.heap
        list == made.breakpoints
        r == Len(requests) + 1
        removals == SeqMap(LAMBDA o : RemoveBreakpointCall(heap[o]),
                           RemovedBreakpoints(previousBreakpoints, list, heap))
        settings == Flatten([i \in DOMAIN list |->
                        IF heap[list[i]].verified THEN <<>>
                        ELSE setCDPBreakpoint(sourceMaps, sourcePath, heap[list[i]].line,
                                              OrElse(heap[list[i]].column, 0),
                                              [kind |-> "setBreakPointsRequest",
                                               bp |-> list[i], req |-> r])])
    IN  /\ Len(requests) < MaxRequests
        /\ sendCDPMessage(removals \o settings, cdpMessagePromises)
        /\ bpObjs' = heap
        /\ breakpoints' = [p \in DOMAIN breakpoints \cup {sourcePath} |->
                              IF p = sourcePath THEN list ELSE breakpoints[p]]
        /\ requests' = Append(requests,
                          [path |-> sourcePath, breakpoints |-> list,
                           tracked |-> TrackedBefore(previousBreakpoints, list),
                           waiting |-> Len(settings),
                           status |-> IF settings = <<>> THEN "responded" ELSE "pending"])
        /\ dapOut' = IF settings = <<>> THEN <<BreakpointsResponse(r, list, heap)>> ELSE <<>>
        /\ UNCHANGED retryCall
        /\ last' = [op |-> "setBreakpoints", path |-> sourcePath, args |-> args, request |-> r]
        /\ UNCHANGED pauseVars
        /\ UNCHANGED <<connection, sourceMapAliases, expoPreludeLineCount, threads,
                       sourceMaps, parsing, rtNextBreakpointId, answered, received>>

\* the asynchronous callbacks of updateBreakpointsInSource up to their first await:
\* one (source map path, breakpoint) pair per callback, in call order
BreakpointsInSource(consumer) ==
    LET uniqueSourceMapPaths ==
            Unique(SelectSeq(SeqMap(LAMBDA m : m.source, consumer.mappings),
                             LAMBDA src : src # <<>>))
    IN  Flatten([i \in DOMAIN uniqueSourceMapPaths |->
            SeqMap(LAMBDA o : <<uniqueSourceMapPaths[i], o>>,
                   BreakpointsOf(toAbsoluteFilePath(uniqueSourceMapPaths[i])))])

\* as updateBreakpointsInSource, asking for the removal after the new breakpoint
updateBreakpointsInSourceSetFirst(maps, consumer) ==
    Flatten(SeqMap(LAMBDA pair :
                setCDPBreakpoint(maps, pair[1], bpObjs[pair[2]].line,
                                 OrElse(bpObjs[pair[2]].column, 1) - 1,
                                 [kind |-> "updateBreakpointsInSource", bp |-> pair[2]])
                \o (IF bpObjs[pair[2]].verified
                    THEN <<RemoveBreakpointCall(bpObjs[pair[2]])>> ELSE <<>>),
            BreakpointsInSource(consumer)))

updateBreakpointsInSource(maps, consumer) ==
    Flatten(SeqMap(LAMBDA pair :
                (IF bpObjs[pair[2]].verified
                 THEN <<RemoveBreakpointCall(bpObjs[pair[2]])>> ELSE <<>>)
                \o setCDPBreakpoint(maps, pair[1], bpObjs[pair[2]].line,
                                    OrElse(bpObjs[pair[2]].column, 1) - 1,
                                    [kind |-> "updateBreakpointsInSource", bp |-> pair[2]]),
            BreakpointsInSource(consumer)))

\* the breakpoints whose setCDPBreakpoint returned null without a request: their
\* callbacks go on in the same macrotask and set verified = false
UnresolvedInSource(maps, consumer) ==
    {pair[2] : pair \in
        {q \in Range(BreakpointsInSource(consumer)) :
            toGeneratedPosition(maps, q[1], bpObjs[q[2]].line,
                                OrElse(bpObjs[q[2]].column, 1) - 1) = Null}}

----------------------------------------------------------------------------
(* Reference Store.  variableStore.ts is not among the sources: the store is       *)
(* modelled from section 4.5 of the specification, one counter for the handles of *)
(* runtime objects (cdp) and of the adapter's own values (repl).                  *)

EmptyStore == [counter |-> 0, cdp |-> {}, repl |-> {}]

\* as adaptCDPObjectId, with a new handle at every call
adaptCDPObjectIdAlwaysNew(store, objectId) ==
    [store |-> [store EXCEPT !.counter = @ + 1,
                             !.cdp = {e \in @ : e.remote # objectId}
                                     \cup {[remote |-> objectId, handle |-> store.counter + 1]}],
     handle |-> store.counter + 1]

\* adapt(remoteObjectId): the handle of a remote id, a new one if the id is not known
adaptCDPObjectId(store, objectId) ==
    IF \E e \in store.cdp : e.remote = objectId
    THEN [store |-> store,
          handle |-> (CHOOSE e \in store.cdp : e.remote = objectId).handle]
    ELSE [store |-> [store EXCEPT !.counter = @ + 1,
                                  !.cdp = @ \cup {[remote |-> objectId,
                                                   handle |-> store.counter + 1]}],
          handle |-> store.counter + 1]

\* as pushReplVariable, counting the adapter's own values apart from the runtime's
pushReplVariableOwnCounter(store, variables) ==
    [store |-> [store EXCEPT !.repl = @ \cup {[handle |-> Cardinality(store.repl) + 1,
                                               variables |-> variables]}],
     handle |-> Cardinality(store.repl) + 1]

\* pushSynthetic(namedValues): a new handle for a list of named values
pushReplVariable(store, variables) ==
    [store |-> [store EXCEPT !.counter = @ + 1,
                             !.repl = @ \cup {[handle |-> store.counter + 1,
                                               variables |-> variables]}],
     handle |-> store.counter + 1]

\* clear(), for the adapter's own values
clearReplVariables(store) == [store EXCEPT !.repl = {}, !.counter = 0]

\* clear(), for the handles of runtime objects
clearCDPVariables(store) == [store EXCEPT !.cdp = {}, !.counter = 0]

IsReplVariable(store, handle) == \E e \in store.repl : e.handle = handle

IsCDPVariable(store, handle) == \E e \in store.cdp : e.handle = handle

ReplVariables(store, handle) == (CHOOSE e \in store.repl : e.handle = handle).variables

RemoteIdOf(store, handle) == (CHOOSE e \in store.cdp : e.handle = handle).remote

\* resolve of a handle the store does not know: no failure, the empty list
UnknownHandleVariables == <<>>

\* the handles the store can resolve
Handles(store) == {e.handle : e \in store.cdp} \cup {e.handle : e \in store.repl}

\* resolve, for a list of property descriptors of the runtime: every object among them
\* gets its handle
RECURSIVE AdaptProperties(_, _, _)
AdaptProperties(store, properties, acc) ==
    IF properties = <<>> THEN [store |-> store, variables |-> acc]
    ELSE LET prop == Head(properties)
         IN  IF "objectId" \in DOMAIN prop
             THEN LET adapted == adaptCDPObjectId(store, prop.objectId)
                  IN  AdaptProperties(adapted.store, Tail(properties),
                                      Append(acc, [name |-> prop.name, value |-> "Object",
                                                   variablesReference |-> adapted.handle]))
             ELSE AdaptProperties(store, Tail(properties),
                                  Append(acc, [name |-> prop.name, value |-> prop.value,
                                               variablesReference |-> 0]))

\* the request by which resolve fetches the properties of a runtime object
GetPropertiesCall(objectId, cont) ==
    Call("Runtime.getProperties", [objectId |-> objectId, ownProperties |-> TRUE], cont)

----------------------------------------------------------------------------
(* What the paused runtime can send *)

\* the objects of the runtime and their own properties
RemoteObjectIds == {"scope1", "obj1", "errScope", "errStack", "errFrame0"}

PropertiesOf(objectId) ==
    CASE objectId = "scope1" ->
            << [name |-> "x", value |-> "1"], [name |-> "o", objectId |-> "obj1"] >>
      [] objectId = "obj1" ->
            << [name |-> "y", value |-> "2"] >>
      [] objectId = "errScope" ->
            << [name |-> "message", value |-> "boom"], [name |-> "isFatal", value |-> "true"],
               [name |-> "stack", objectId |-> "errStack"] >>
      [] objectId = "errStack" ->
            << [name |-> "0", objectId |-> "errFrame0"], [name |-> "length", value |-> "1"] >>
      [] objectId = "errFrame0" ->
            << [name |-> "methodName", value |-> "g"], [name |-> "file", value |-> BundleURL],
               [name |-> "lineNumber", value |-> "3"], [name |-> "column", value |-> "1"] >>
      [] objectId = "gapScope" ->
            << [name |-> "message", value |-> "boom"], [name |-> "isFatal", value |-> "true"],
               [name |-> "stack", objectId |-> "gapStack"] >>
      [] objectId = "gapStack" ->
            << [name |-> "2", objectId |-> "gapFrame2"], [name |-> "0", objectId |-> "errFrame0"],
               [name |-> "length", value |-> "3"] >>
      [] objectId = "gapFrame2" ->
            << [name |-> "methodName", value |-> "h"], [name |-> "file", value |-> ChunkURL],
               [name |-> "lineNumber", value |-> "2"], [name |-> "column", value |-> "1"] >>
      [] objectId = "bareScope" ->
            << [name |-> "stack", objectId |-> "bareStack"] >>
      [] objectId = "bareStack" ->
            << [name |-> "0", objectId |-> "bareFrame"], [name |-> "1", value |-> "native"] >>
      [] objectId = "bareFrame" ->
            << [name |-> "methodName", value |-> "k"] >>
      [] objectId = "noStackScope" ->
            << [name |-> "message", value |-> "boom"] >>
      [] OTHER -> <<>>

CallFrame(functionName, scriptId, lineNumber, columnNumber, objectId) ==
    [functionName |-> functionName,
     location |-> [scriptId |-> scriptId, lineNumber |-> lineNumber,
                   columnNumber |-> columnNumber],
     scopeChain |-> << [type |-> "local", name |-> "", object |-> [objectId |-> objectId]] >>]

\* params of Debugger.paused: a stop at a breakpoint in f, and the stop the error
\* reporter makes to show an uncaught exception
BreakpointPause ==
    [reason |-> "other", callFrames |-> << CallFrame("f", "1", 2, 0, "scope1") >>]

ExceptionPause ==
    [reason |-> "other",
     callFrames |-> << CallFrame("__RNIDE_breakOnError", "1", 0, 0, "errScope") >>]

Pauses == {BreakpointPause, ExceptionPause}

\* the stops of the error reporter for an error whose stack has entries "2" and "0" only,
\* for one whose local scope has a stack but neither message nor isFatal and whose
\* entries lack fields, and for one whose local scope has no stack
StackPauses ==
    { [reason |-> "other",
       callFrames |-> << CallFrame("__RNIDE_breakOnError", "1", 0, 0, objectId) >>]
        : objectId \in {"gapScope", "bareScope", "noStackScope"} }

\* the remote objects Runtime.evaluate can answer with
EvaluationResults == { [type |-> "number", value |-> 3], [type |-> "object", objectId |-> "obj1"] }

\* params of Runtime.consoleAPICalled: console.log("hello", obj1) with the three
\* arguments the wrapper adds, the same without them, and a log of the IDE itself
ConsoleCalls ==
    { [type |-> "log",
       args |-> << [type |-> "string", value |-> "hello"],
                   [type |-> "object", objectId |-> "obj1"],
                   [type |-> "string", value |-> BundleURL],
                   [type |-> "number", value |-> 3], [type |-> "number", value |-> 1] >>],
      [type |-> "error",
       args |-> << [type |-> "object", objectId |-> "obj1"] >>],
      [type |-> "log",
       args |-> << [type |-> "string", value |-> "__RNIDE_INTERNAL"] >>] }

\* a log of the IDE itself that went through the wrapper
InternalCallWithStack ==
    [type |-> "log",
     args |-> << [type |-> "string", value |-> "__RNIDE_INTERNAL"],
                 [type |-> "string", value |-> "ping"],
                 [type |-> "string", value |-> BundleURL],
                 [type |-> "number", value |-> 3], [type |-> "number", value |-> 1] >>]

\* pauses for the Position Translator: two frames in scripts that have a map, and a
\* frame in a script that has none
TranslatorPauses ==
    { [reason |-> "other",
       callFrames |-> << CallFrame("f", "1", 4, 6, "scope1"), CallFrame("g", "2", 1, 0, "obj1") >>],
      [reason |-> "other", callFrames |-> << CallFrame("h", "9", 7, 3, "scope1") >>] }

\* params.context of Runtime.executionContextCreated
Contexts == { [id |-> 1, name |-> "main"] }

----------------------------------------------------------------------------
(* Position Translator, from generated to original *)

UnknownScript ==
    [scheme |-> "", host |-> "", port |-> "", path |-> "__script__", search |-> ""]
UnknownSource == <<"__source__">>
\* a string that `new URL` does not parse
InvalidURL ==
    [scheme |-> "", host |-> "", port |-> "", path |-> "", search |-> ""]

\* a comparison of the URLs as they are written
compareWithHost(url1, url2) ==
    url1.scheme # "" /\ url2.scheme # "" /\ url1 = url2

\* new URL(...) with hostname "localhost" and port "8080", compared by href
compareIgnoringHost(url1, url2) ==
    /\ url1.scheme # "" /\ url2.scheme # ""
    /\ [url1 EXCEPT !.host = "localhost", !.port = "8080"]
          = [url2 EXCEPT !.host = "localhost", !.port = "8080"]

\* SourceMapConsumer.originalPositionFor: the last mapping of the generated line that
\* starts at or before the column
originalPositionFor(consumer, line, column) ==
    LET cands == {m \in Range(consumer.mappings) :
                     m.generatedLine = line /\ m.generatedColumn <= column}
    IN  IF cands = {} THEN Null
        ELSE LET m == CHOOSE x \in cands :
                          \A y \in cands : y.generatedColumn <= x.generatedColumn
             IN  [source |-> m.source, line |-> m.originalLine, column |-> m.originalColumn]

\* the script is named by its id, [scriptId |-> ...], or by its URL, [url |-> ...]
MatchesScript(sm, scriptIdOrURL) ==
    IF "scriptId" \in DOMAIN scriptIdOrURL
    THEN sm[2] = scriptIdOrURL.scriptId
    ELSE compareIgnoringHost(sm[1], scriptIdOrURL.url)

RECURSIVE findOriginalPositionInAtGeneratedLine(_, _, _, _)
\* as findOriginalPositionIn, consulting the map at the line as given
findOriginalPositionInAtGeneratedLine(maps, scriptIdOrURL, lineNumber1Based, acc) ==
    IF maps = <<>> THEN acc
    ELSE LET sm == Head(maps)
             pos == originalPositionFor(sm[3], lineNumber1Based, acc.generatedColumn)
         IN  IF MatchesScript(sm, scriptIdOrURL)
             THEN findOriginalPositionInAtGeneratedLine(Tail(maps), scriptIdOrURL,
                     lineNumber1Based,
                     IF pos = Null
                     THEN [acc EXCEPT !.scriptURL = sm[1]]
                     ELSE [acc EXCEPT !.scriptURL = sm[1], !.sourceURL = pos.source,
                                      !.lineNumber1Based = pos.line,
                                      !.columnNumber0Based = pos.column])
             ELSE findOriginalPositionInAtGeneratedLine(Tail(maps), scriptIdOrURL,
                                                        lineNumber1Based, acc)

RECURSIVE findOriginalPositionIn(_, _, _, _)
findOriginalPositionIn(maps, scriptIdOrURL, lineNumber1Based, acc) ==
    IF maps = <<>> THEN acc
    ELSE LET sm == Head(maps)
             pos == originalPositionFor(sm[3], lineNumber1Based - sm[4],
                                        acc.generatedColumn)
         IN  IF MatchesScript(sm, scriptIdOrURL)
             THEN findOriginalPositionIn(Tail(maps), scriptIdOrURL, lineNumber1Based,
                     IF pos = Null
                     THEN [acc EXCEPT !.scriptURL = sm[1]]
                     ELSE [acc EXCEPT !.scriptURL = sm[1], !.sourceURL = pos.source,
                                      !.lineNumber1Based = pos.line,
                                      !.columnNumber0Based = pos.column])
             ELSE findOriginalPositionIn(Tail(maps), scriptIdOrURL, lineNumber1Based, acc)

findOriginalPosition(scriptIdOrURL, lineNumber1Based, columnNumber0Based) ==
    LET found == findOriginalPositionIn(sourceMaps, scriptIdOrURL, lineNumber1Based,
                    [scriptURL |-> UnknownScript, sourceURL |-> UnknownSource,
                     lineNumber1Based |-> lineNumber1Based,
                     columnNumber0Based |-> columnNumber0Based,
                     generatedColumn |-> columnNumber0Based])
    IN  [sourceURL |-> toAbsoluteFilePath(found.sourceURL),
         lineNumber1Based |-> found.lineNumber1Based,
         columnNumber0Based |-> found.columnNumber0Based,
         scriptURL |-> found.scriptURL]

----------------------------------------------------------------------------
(* connection.on("message") *)

\* as ErrorObject, built by `new Error(message.error.message)`
ErrorObjectMessageOnly(error) ==
    [message |-> error.message, stack |-> "Error"]

\* new Error() with Object.assign(error, message.error)
ErrorObject(error) ==
    [f \in DOMAIN error \cup {"stack"} |-> IF f \in DOMAIN error THEN error[f] ELSE "Error"]

HandshakeAnswered == \A id \in 1..HandshakeLength : id \in answered

\* the requests the runtime can answer next: each request is answered at most once,
\* the requests of the "open" handshake in the order they were sent, any other request
\* at any time
Answerable ==
    {id \in DOMAIN cdpMessagePromises :
        id <= HandshakeLength => \A j \in 1..(id - 1) : j \in answered}

\* the answers the runtime can give to request id: a CDP response carries a result
\* object or an error, and a breakpoint the runtime sets gets a fresh id
ResponsesFor(id) ==
    {[error |-> e] : e \in ErrorPayloads}
    \cup CASE cdpMessagePromises[id].method = "Debugger.setBreakpointByUrl" ->
                {[result |-> EmptyObject], [result |-> [breakpointId |-> rtNextBreakpointId]]}
           [] cdpMessagePromises[id].method = "Runtime.getProperties" ->
                {[result |-> [result |-> PropertiesOf(cdpMessagePromises[id].cont.objectId)]]}
           [] cdpMessagePromises[id].cont.kind = "evaluateRequest" ->
                {[result |-> [result |-> remoteObject]] : remoteObject \in EvaluationResults}
           [] OTHER -> {[result |-> EmptyObject]}

\* as HeapAfter, with `bp.setId(...)` left out
HeapAfterWithoutSetId(cont, resolved, rejected, breakpointId) ==
    IF cont.kind \in {"setBreakPointsRequest", "updateBreakpointsInSource"}
       /\ resolved /\ breakpointId # Undefined
    THEN [bpObjs EXCEPT ![cont.bp] = [@ EXCEPT !.verified = TRUE]]
    ELSE bpObjs

\* as HeapAfter, with the continuation of updateBreakpointsInSource left out
HeapAfterRequestOnly(cont, resolved, rejected, breakpointId) ==
    IF cont.kind = "setBreakPointsRequest" /\ resolved /\ breakpointId # Undefined
    THEN [bpObjs EXCEPT ![cont.bp] = [@ EXCEPT !.verified = TRUE, !.id = breakpointId]]
    ELSE bpObjs

\* the breakpoint objects after the continuation awaiting the settled promise has run
HeapAfter(cont, resolved, rejected, breakpointId) ==
    IF cont.kind = "setBreakPointsRequest" /\ resolved /\ breakpointId # Undefined
    THEN [bpObjs EXCEPT ![cont.bp] = [@ EXCEPT !.verified = TRUE, !.id = breakpointId]]
    ELSE IF cont.kind = "updateBreakpointsInSource" /\ resolved
    THEN IF breakpointId # Undefined
         THEN [bpObjs EXCEPT ![cont.bp] = [@ EXCEPT !.verified = TRUE, !.id = breakpointId]]
         ELSE [bpObjs EXCEPT ![cont.bp] = [@ EXCEPT !.verified = FALSE]]
    ELSE bpObjs

\* Promise.all of setBreakPointsRequest: rejected by the first rejection, resolved when
\* every callback has returned
RequestAfter(req, rejected) ==
    [req EXCEPT !.waiting = @ - 1,
                !.status = IF @ # "pending" THEN @
                           ELSE IF rejected THEN "failed"
                           ELSE IF req.waiting = 1 THEN "responded" ELSE "pending"]

\* as MapDelete, with the delete left out
MapDeleteNothing(promises, id) == promises

\* this.cdpMessagePromises.delete(message.id)
MapDelete(promises, id) == [k \in DOMAIN promises \ {id} |-> promises[k]]

----------------------------------------------------------------------------
(* Pause Reconstructor *)

Source(name, path) == [name |-> name, path |-> path]

StackFrame(id, name, source, line, column) ==
    [id |-> id, name |-> name, source |-> source, line |-> line, column |-> column]

StoppedEvent(reason, threadId, text) ==
    [type |-> "event", event |-> "stopped", reason |-> reason, threadId |-> threadId,
     text |-> text]

Event(event, body) == [type |-> "event", event |-> event, body |-> body]

\* `new StoppedEvent(..., this.threads[0].id, ...)` throws when there is no thread: the
\* handler ends there and sends nothing
StoppedEvents(reason, text, body) ==
    IF threads = <<>> THEN <<>>
    ELSE << StoppedEvent(reason, threads[1].id, text), Event("RNIDE_paused", body) >>

\* the StackFrame of a call frame of Debugger.paused
FrameOf(cdpFrame, index) ==
    LET pos == findOriginalPosition([scriptId |-> cdpFrame.location.scriptId],
                                    cdpFrame.location.lineNumber + 1,
                                    cdpFrame.location.columnNumber)
    IN  StackFrame(index, cdpFrame.functionName, Source(pos.scriptURL, pos.sourceURL),
                   pos.lineNumber1Based, pos.columnNumber0Based + 1)

\* the frames with the outermost call first
FramesOfOutermostFirst(params) ==
    [i \in DOMAIN params.callFrames |->
        FrameOf(params.callFrames[Len(params.callFrames) + 1 - i], i - 1)]

FramesOf(params) ==
    [i \in DOMAIN params.callFrames |-> FrameOf(params.callFrames[i], i - 1)]

ScopeChainsOf(params) ==
    [i \in DOMAIN params.callFrames |-> params.callFrames[i].scopeChain]

IsExceptionPause(params) ==
    /\ params.reason = "other"
    /\ params.callFrames[1].functionName = "__RNIDE_breakOnError"

\* callFrames[0].scopeChain?.find((scope) => scope.type === "local")?.object?.objectId
LocalScopeObjectId(params) ==
    LET locals == SelectSeq(params.callFrames[1].scopeChain, LAMBDA sc : sc.type = "local")
    IN  IF locals = <<>> THEN "undefined" ELSE Head(locals).object.objectId

\* variables.find((v) => v.name === name)
FindVariable(variables, name) ==
    LET hits == SelectSeq(variables, LAMBDA v : v.name = name)
    IN  IF hits = <<>> THEN Null ELSE Head(hits)

\* find(...)?.value || fallback
ValueOf(variables, name, fallback) ==
    IF FindVariable(variables, name) = Null THEN fallback
    ELSE FindVariable(variables, name).value

\* name.match(/^\d+$/)
IsIndex(name) == name \in {"0", "1", "2", "3"}

\* parseInt(text, 10) of the decimal numbers the runtime sends here
ParseInt(text) ==
    CASE text = "0" -> 0 [] text = "1" -> 1 [] text = "2" -> 2 [] text = "3" -> 3
      [] OTHER -> 0

\* stackFrames.push(frame): the frames in the order their properties come
SetAtEnd(array, index, frame) == Append(array, frame)

\* stackFrames[index] = frame, on a JavaScript array: the entries skipped are holes
SetAt(array, index, frame) ==
    [i \in 1..(IF index + 1 > Len(array) THEN index + 1 ELSE Len(array)) |->
        IF i = index + 1 THEN frame
        ELSE IF i <= Len(array) THEN array[i] ELSE Null]

\* the StackFrame built from the properties of one entry of the error's stack
ExceptionFrame(index, properties) ==
    LET methodName == ValueOf(properties, "methodName", "")
        genUrl == ValueOf(properties, "file", InvalidURL)
        genLine1Based == ParseInt(ValueOf(properties, "lineNumber", "0"))
        genColumn1Based == ParseInt(ValueOf(properties, "column", "0"))
        pos == findOriginalPosition([url |-> genUrl], genLine1Based, genColumn1Based - 1)
    IN  StackFrame(index, methodName, Source(pos.scriptURL, pos.sourceURL),
                   pos.lineNumber1Based, pos.columnNumber0Based + 1)

PauseContinuation(stage, task, objectId, index) ==
    [kind |-> "handleDebuggerPaused", stage |-> stage, task |-> task,
     objectId |-> objectId, index |-> index]

\* what a continuation leaves when it does nothing to the pause and the store
NoEffect ==
    [store |-> variableStore, tasks |-> pauseTasks, frames |-> pausedStackFrames,
     calls |-> <<>>, events |-> <<>>, handed |-> handed, built |-> Null]

\* an await of handleDebuggerPaused that throws: the handler ends, nothing is sent
PauseFailed(task, store) ==
    [NoEffect EXCEPT !.store = store,
                     !.tasks = [pauseTasks EXCEPT ![task].status =
                                   IF @ = "running" THEN "failed" ELSE @]]

\* as AfterLocalScope, the handler ending when the local scope has no stack
AfterLocalScopeAbortingWithoutStack(cont, properties) ==
    LET adapted == AdaptProperties(variableStore, properties, <<>>)
        localScopeVariables == adapted.variables
        stack == FindVariable(localScopeVariables, "stack")
        stackObjectId == IF stack = Null THEN 0 ELSE stack.variablesReference
    IN  IF ~IsCDPVariable(adapted.store, stackObjectId)
        THEN PauseFailed(cont.task, adapted.store)
        ELSE [NoEffect EXCEPT
                !.store = adapted.store,
                !.tasks = [pauseTasks EXCEPT ![cont.task] =
                              [@ EXCEPT !.errorMessage =
                                            ValueOf(localScopeVariables, "message", ""),
                                        !.isFatal =
                                            ValueOf(localScopeVariables, "isFatal", "")]],
                !.calls = << GetPropertiesCall(RemoteIdOf(adapted.store, stackObjectId),
                                PauseContinuation(2, cont.task,
                                    RemoteIdOf(adapted.store, stackObjectId), 0)) >>]

\* the end of handleDebuggerPaused for an exception: the frames replace pausedStackFrames
\* and the stop is announced
ExceptionStopped(task, stackFrames, store, tasks) ==
    [NoEffect EXCEPT
        !.store = store,
        !.tasks = [tasks EXCEPT ![task].status = "stopped"],
        !.frames = stackFrames,
        !.events = StoppedEvents("exception", tasks[task].errorMessage,
                                 [reason |-> "exception", isFatal |-> tasks[task].isFatal]),
        !.built = [frames |-> stackFrames, scopeChains |-> <<>>]]

\* handleDebuggerPaused after the properties of the local scope have come; without a
\* stack the store is asked for a handle it does not know, the list is empty and the
\* stop is announced without frames
AfterLocalScope(cont, properties) ==
    LET adapted == AdaptProperties(variableStore, properties, <<>>)
        localScopeVariables == adapted.variables
        stack == FindVariable(localScopeVariables, "stack")
        stackObjectId == IF stack = Null THEN 0 ELSE stack.variablesReference
        tasks == [pauseTasks EXCEPT ![cont.task] =
                     [@ EXCEPT !.errorMessage = ValueOf(localScopeVariables, "message", ""),
                               !.isFatal = ValueOf(localScopeVariables, "isFatal", "")]]
    IN  IF ~IsCDPVariable(adapted.store, stackObjectId)
        THEN ExceptionStopped(cont.task, UnknownHandleVariables, adapted.store, tasks)
        ELSE [NoEffect EXCEPT
                !.store = adapted.store,
                !.tasks = tasks,
                !.calls = << GetPropertiesCall(RemoteIdOf(adapted.store, stackObjectId),
                                PauseContinuation(2, cont.task,
                                    RemoteIdOf(adapted.store, stackObjectId), 0)) >>]

RECURSIVE FramesOfUnknown(_, _)
\* the frames of the entries whose reference the store does not know: their list of
\* properties is empty, and the frame is there before any answer of the runtime
FramesOfUnknown(entries, stackFrames) ==
    IF entries = <<>> THEN stackFrames
    ELSE FramesOfUnknown(Tail(entries),
            SetAt(stackFrames, ParseInt(Head(entries).name),
                  ExceptionFrame(ParseInt(Head(entries).name), UnknownHandleVariables)))

\* handleDebuggerPaused after the properties of the stack object have come: one
\* request for every entry with a numerical name, all of them awaited by Promise.all
AfterStackObject(cont, properties) ==
    LET adapted == AdaptProperties(variableStore, properties, <<>>)
        entries == SelectSeq(adapted.variables, LAMBDA v : IsIndex(v.name))
        known == SelectSeq(entries,
                           LAMBDA v : IsCDPVariable(adapted.store, v.variablesReference))
        unknown == SelectSeq(entries,
                             LAMBDA v : ~IsCDPVariable(adapted.store, v.variablesReference))
        calls == [i \in DOMAIN known |->
                    GetPropertiesCall(RemoteIdOf(adapted.store, known[i].variablesReference),
                        PauseContinuation(3, cont.task,
                            RemoteIdOf(adapted.store, known[i].variablesReference),
                            ParseInt(known[i].name)))]
        stackFrames == FramesOfUnknown(unknown, <<>>)
        tasks == [pauseTasks EXCEPT ![cont.task].waiting = Len(known),
                                    ![cont.task].entries = Len(known),
                                    ![cont.task].stackFrames = stackFrames]
    IN  IF known = <<>>
        THEN ExceptionStopped(cont.task, stackFrames, adapted.store, tasks)
        ELSE [NoEffect EXCEPT !.store = adapted.store, !.tasks = tasks, !.calls = calls]

\* handleDebuggerPaused after the properties of one entry of the stack have come
AfterStackEntry(cont, properties) ==
    LET adapted == AdaptProperties(variableStore, properties, <<>>)
        stackFrames == SetAt(pauseTasks[cont.task].stackFrames, cont.index,
                             ExceptionFrame(cont.index, adapted.variables))
        tasks == [pauseTasks EXCEPT ![cont.task].stackFrames = stackFrames,
                                    ![cont.task].waiting = @ - 1]
    IN  IF tasks[cont.task].waiting = 0 /\ tasks[cont.task].status = "running"
        THEN ExceptionStopped(cont.task, stackFrames, adapted.store, tasks)
        ELSE [NoEffect EXCEPT !.store = adapted.store, !.tasks = tasks]

VariablesResponse(variables) ==
    [type |-> "response", command |-> "variables", variables |-> variables]

EvaluateResponse(type, variablesReference) ==
    [type |-> "response", command |-> "evaluate", resultType |-> type,
     variablesReference |-> variablesReference]

\* the handles a list of variables shows to the editor
ReferencesIn(variables) ==
    {variables[i].variablesReference : i \in DOMAIN variables} \ {0}

\* variablesRequest after the properties of the object have come
AfterVariables(cont, properties) ==
    LET adapted == AdaptProperties(variableStore, properties, <<>>)
    IN  [NoEffect EXCEPT !.store = adapted.store,
                         !.events = <<VariablesResponse(adapted.variables)>>,
                         !.handed = handed \cup ReferencesIn(adapted.variables)]

\* as AfterEvaluate, numbering the object without the store
AfterEvaluateWithoutAdapt(remoteObject) ==
    IF remoteObject.type = "object"
    THEN [NoEffect EXCEPT !.events = <<EvaluateResponse("object", variableStore.counter + 1)>>,
                          !.handed = handed \cup {variableStore.counter + 1}]
    ELSE [NoEffect EXCEPT !.events = <<EvaluateResponse(remoteObject.type, 0)>>]

\* evaluateRequest after the answer to Runtime.evaluate has come
AfterEvaluate(remoteObject) ==
    IF remoteObject.type = "object"
    THEN LET adapted == adaptCDPObjectId(variableStore, remoteObject.objectId)
         IN  [NoEffect EXCEPT !.store = adapted.store,
                              !.events = <<EvaluateResponse("object", adapted.handle)>>,
                              !.handed = handed \cup {adapted.handle}]
    ELSE [NoEffect EXCEPT !.events = <<EvaluateResponse(remoteObject.type, 0)>>]

\* as ContinuationEffect, answering a variables request whose fetch failed with an
\* empty list
ContinuationEffectEmptyOnFailure(cont, resolved, payload) ==
    CASE cont.kind = "handleDebuggerPaused" ->
            IF ~resolved THEN PauseFailed(cont.task, variableStore)
            ELSE IF cont.stage = 1 THEN AfterLocalScope(cont, payload.result.result)
            ELSE IF cont.stage = 2 THEN AfterStackObject(cont, payload.result.result)
            ELSE AfterStackEntry(cont, payload.result.result)
      [] cont.kind = "variablesRequest" ->
            IF resolved THEN AfterVariables(cont, payload.result.result)
            ELSE [NoEffect EXCEPT !.events = <<VariablesResponse(<<>>)>>]
      [] cont.kind = "evaluateRequest" ->
            IF resolved THEN AfterEvaluate(payload.result.result) ELSE NoEffect
      [] OTHER -> NoEffect

\* what the continuation awaiting the settled promise does to the pause, the store and
\* the editor; a rejection ends the asynchronous function that awaited
ContinuationEffect(cont, resolved, payload) ==
    CASE cont.kind = "handleDebuggerPaused" ->
            IF ~resolved THEN PauseFailed(cont.task, variableStore)
            ELSE IF cont.stage = 1 THEN AfterLocalScope(cont, payload.result.result)
            ELSE IF cont.stage = 2 THEN AfterStackObject(cont, payload.result.result)
            ELSE AfterStackEntry(cont, payload.result.result)
      [] cont.kind = "variablesRequest" ->
            IF resolved THEN AfterVariables(cont, payload.result.result) ELSE NoEffect
      [] cont.kind = "evaluateRequest" ->
            IF resolved THEN AfterEvaluate(payload.result.result) ELSE NoEffect
      [] OTHER -> NoEffect

\* a message with result or error
OnResponse(id, payload) ==
    LET isPending == id \in DOMAIN cdpMessagePromises
        resolved == isPending /\ "result" \in DOMAIN payload
        rejected == isPending /\ ~resolved /\ "error" \in DOMAIN payload
        breakpointId == IF resolved THEN BreakpointIdOf(payload.result) ELSE Undefined
    IN  /\ connection = "open"
        /\ \E cont \in {IF isPending THEN cdpMessagePromises[id].cont ELSE NoContinuation} :
           \E heap \in {HeapAfter(cont, resolved, rejected, breakpointId)} :
           \E effect \in {ContinuationEffect(cont, resolved, payload)} :
           \E promises \in {MapDelete(cdpMessagePromises, id)} :
              /\ sendCDPMessage(effect.calls, promises)
              /\ answered' = answered \cup {id}
              /\ bpObjs' = heap
              /\ IF cont.kind = "setBreakPointsRequest"
                 THEN LET req == RequestAfter(requests[cont.req], rejected)
                      IN  /\ requests' = [requests EXCEPT ![cont.req] = req]
                          /\ dapOut' = IF requests[cont.req].status = "pending"
                                          /\ req.status = "responded"
                                       THEN <<BreakpointsResponse(cont.req, req.breakpoints, heap)>>
                                       ELSE <<>>
                 ELSE /\ requests' = requests
                      /\ dapOut' = effect.events
              /\ rtNextBreakpointId' =
                    IF "result" \in DOMAIN payload /\ "breakpointId" \in DOMAIN payload.result
                    THEN rtNextBreakpointId + 1 ELSE rtNextBreakpointId
              /\ variableStore' = effect.store
              /\ pauseTasks' = effect.tasks
              /\ pausedStackFrames' = effect.frames
              /\ handed' = effect.handed
              /\ UNCHANGED retryCall
              /\ last' = [op |-> "response", id |-> id, payload |-> payload, kind |-> cont.kind,
                          request |-> IF cont.kind = "setBreakPointsRequest"
                                      THEN cont.req ELSE Undefined,
                          settled |-> IF resolved THEN "resolved"
                                      ELSE IF rejected THEN "rejected" ELSE "nothing",
                          value |-> IF resolved THEN payload.result
                                    ELSE IF rejected THEN ErrorObject(payload.error)
                                    ELSE EmptyObject,
                          built |-> effect.built]
              /\ UNCHANGED <<connection, sourceMapAliases, expoPreludeLineCount, threads,
                             sourceMaps, parsing, breakpoints, received, pausedScopeChains>>

ThreadEvent(reason, threadId) ==
    [type |-> "event", event |-> "thread", reason |-> reason, threadId |-> threadId]

InitializedEvent == [type |-> "event", event |-> "initialized"]

\* case "Debugger.scriptParsed", up to `await new SourceMapConsumer(sourceMap)`; without
\* an inline source map the handler only sends InitializedEvent.  The runtime reports
\* scripts once it has answered the handshake.
OnScriptParsed(params) ==
    /\ connection = "open"
    /\ received.scripts < MaxScripts
    /\ HandshakeAnswered
    /\ IF params.sourceMapURL = "data:"
       THEN /\ parsing' = Append(parsing, params)
            /\ dapOut' = <<>>
       ELSE /\ parsing' = parsing
            /\ dapOut' = <<InitializedEvent>>
    /\ outbox' = <<>>
    /\ UNCHANGED retryCall
    /\ last' = [op |-> "scriptParsed", params |-> params]
    /\ received' = [received EXCEPT !.scripts = @ + 1]
    /\ UNCHANGED pauseVars
    /\ UNCHANGED <<connection, sourceMapAliases, expoPreludeLineCount, threads, sourceMaps,
                   cdpMessageId, cdpMessagePromises, bpObjs, breakpoints, requests,
                   rtNextBreakpointId, sentIds, rtRemoved, answered>>

\* a line offset that disregards the "__env__" module
LineOffsetIgnoringEnv(sourceMap) ==
    IF (\E i \in DOMAIN sourceMap.sources : "__prelude__" \in Range(sourceMap.sources[i]))
          /\ expoPreludeLineCount > 0
    THEN expoPreludeLineCount ELSE 0

\* the line offset of a source map registered by scriptParsed
LineOffset(sourceMap) ==
    LET isMainBundle ==
            \E i \in DOMAIN sourceMap.sources : "__prelude__" \in Range(sourceMap.sources[i])
        bundleContainsExpoPrelude == <<"__env__">> \in Range(sourceMap.sources)
    IN  IF isMainBundle /\ ~bundleContainsExpoPrelude /\ expoPreludeLineCount > 0
        THEN expoPreludeLineCount ELSE 0

IsMainBundle(sourceMap) ==
    \E i \in DOMAIN sourceMap.sources : "__prelude__" \in Range(sourceMap.sources[i])

\* as OnSourceMapConsumerReady, with the new map put before the registered ones
OnSourceMapConsumerReadyUnshift(k) ==
    LET params == parsing[k]
        consumer == params.sourceMap
        maps == <<(<<params.url, params.scriptId, consumer, LineOffset(consumer)>>)>>
                \o sourceMaps
        calls == (IF IsMainBundle(consumer)
                  THEN <<Call("Runtime.evaluate",
                              [expression |-> "__RNIDE_onDebuggerReady()"], NoContinuation)>>
                  ELSE <<>>)
                 \o updateBreakpointsInSource(maps, consumer)
        unresolved == UnresolvedInSource(maps, consumer)
    IN  /\ parsing' = [i \in 1..(Len(parsing) - 1) |->
                          IF i < k THEN parsing[i] ELSE parsing[i + 1]]
        /\ sourceMaps' = maps
        /\ sendCDPMessage(calls, cdpMessagePromises)
        /\ bpObjs' = [o \in DOMAIN bpObjs |->
                         IF o \in unresolved THEN [bpObjs[o] EXCEPT !.verified = FALSE]
                         ELSE bpObjs[o]]
        /\ dapOut' = <<InitializedEvent>>
        /\ UNCHANGED retryCall
        /\ last' = [op |-> "sourceMapReady", params |-> params]
        /\ UNCHANGED pauseVars
        /\ received' = [received EXCEPT !.stale = IF k <= @ THEN @ - 1 ELSE @]
        /\ UNCHANGED <<connection, sourceMapAliases, expoPreludeLineCount, threads,
                       breakpoints, requests, rtNextBreakpointId, answered>>

\* case "Debugger.scriptParsed", from the moment the SourceMapConsumer is ready: the
\* handlers suspended at the await go on in any order
OnSourceMapConsumerReady(k) ==
    LET params == parsing[k]
        consumer == params.sourceMap
        maps == Append(sourceMaps,
                       <<params.url, params.scriptId, consumer, LineOffset(consumer)>>)
        calls == (IF IsMainBundle(consumer)
                  THEN <<Call("Runtime.evaluate",
                              [expression |-> "__RNIDE_onDebuggerReady()"], NoContinuation)>>
                  ELSE <<>>)
                 \o updateBreakpointsInSource(maps, consumer)
        unresolved == UnresolvedInSource(maps, consumer)
    IN  /\ parsing' = [i \in 1..(Len(parsing) - 1) |->
                          IF i < k THEN parsing[i] ELSE parsing[i + 1]]
        /\ sourceMaps' = maps
        /\ sendCDPMessage(calls, cdpMessagePromises)
        /\ bpObjs' = [o \in DOMAIN bpObjs |->
                         IF o \in unresolved THEN [bpObjs[o] EXCEPT !.verified = FALSE]
                         ELSE bpObjs[o]]
        /\ dapOut' = <<InitializedEvent>>
        /\ UNCHANGED retryCall
        /\ last' = [op |-> "sourceMapReady", params |-> params]
        /\ UNCHANGED pauseVars
        /\ received' = [received EXCEPT !.stale = IF k <= @ THEN @ - 1 ELSE @]
        /\ UNCHANGED <<connection, sourceMapAliases, expoPreludeLineCount, threads,
                       breakpoints, requests, rtNextBreakpointId, answered>>

OutputEvent(output, category) ==
    [type |-> "event", event |-> "output", output |-> output, category |-> category]

\* as OnExecutionContextsCleared, resetting the correlation ids with the rest
OnExecutionContextsClearedResettingIds ==
    /\ connection = "open"
    /\ received.clears < MaxClears
    /\ HandshakeAnswered
    /\ threads' = <<>>
    /\ sourceMaps' = <<>>
    /\ cdpMessageId' = 0
    /\ variableStore' = clearCDPVariables(clearReplVariables(variableStore))
    /\ handed' = {}
    /\ dapOut' = SeqMap(LAMBDA thread : ThreadEvent("exited", thread.id), threads)
                 \o <<OutputEvent("\\x1b[2J", "console")>>
    /\ outbox' = <<>>
    /\ received' = [received EXCEPT !.clears = @ + 1, !.stale = Len(parsing)]
    /\ UNCHANGED retryCall
    /\ last' = [op |-> "executionContextsCleared", allThreads |-> threads,
                hadMaps |-> sourceMaps # <<>>,
                hadHandles |-> variableStore.cdp # {} /\ variableStore.repl # {}]
    /\ UNCHANGED <<pausedStackFrames, pausedScopeChains, pauseTasks>>
    /\ UNCHANGED <<connection, sourceMapAliases, expoPreludeLineCount, parsing,
                   cdpMessagePromises, bpObjs, breakpoints, requests,
                   rtNextBreakpointId, sentIds, rtRemoved, answered>>

\* as OnExecutionContextsCleared, clearing the console before the threads are reported
OnExecutionContextsClearedConsoleFirst ==
    /\ connection = "open"
    /\ received.clears < MaxClears
    /\ HandshakeAnswered
    /\ threads' = <<>>
    /\ sourceMaps' = <<>>
    /\ variableStore' = clearCDPVariables(clearReplVariables(variableStore))
    /\ handed' = {}
    /\ dapOut' = <<OutputEvent("\\x1b[2J", "console")>>
                 \o SeqMap(LAMBDA thread : ThreadEvent("exited", thread.id), threads)
    /\ outbox' = <<>>
    /\ received' = [received EXCEPT !.clears = @ + 1, !.stale = Len(parsing)]
    /\ UNCHANGED retryCall
    /\ last' = [op |-> "executionContextsCleared", allThreads |-> threads,
                hadMaps |-> sourceMaps # <<>>,
                hadHandles |-> variableStore.cdp # {} /\ variableStore.repl # {}]
    /\ UNCHANGED <<pausedStackFrames, pausedScopeChains, pauseTasks>>
    /\ UNCHANGED <<connection, sourceMapAliases, expoPreludeLineCount, parsing,
                   cdpMessageId, cdpMessagePromises, bpObjs, breakpoints, requests,
                   rtNextBreakpointId, sentIds, rtRemoved, answered>>

\* as OnExecutionContextsCleared, with `this.variableStore.clearCDPVariables()` left out
OnExecutionContextsClearedReplOnly ==
    /\ connection = "open"
    /\ received.clears < MaxClears
    /\ HandshakeAnswered
    /\ threads' = <<>>
    /\ sourceMaps' = <<>>
    /\ variableStore' = clearReplVariables(variableStore)
    /\ handed' = {}
    /\ dapOut' = SeqMap(LAMBDA thread : ThreadEvent("exited", thread.id), threads)
                 \o <<OutputEvent("\\x1b[2J", "console")>>
    /\ outbox' = <<>>
    /\ received' = [received EXCEPT !.clears = @ + 1, !.stale = Len(parsing)]
    /\ UNCHANGED retryCall
    /\ last' = [op |-> "executionContextsCleared", allThreads |-> threads,
                hadMaps |-> sourceMaps # <<>>,
                hadHandles |-> variableStore.cdp # {} /\ variableStore.repl # {}]
    /\ UNCHANGED <<pausedStackFrames, pausedScopeChains, pauseTasks>>
    /\ UNCHANGED <<connection, sourceMapAliases, expoPreludeLineCount, parsing,
                   cdpMessageId, cdpMessagePromises, bpObjs, breakpoints, requests,
                   rtNextBreakpointId, sentIds, rtRemoved, answered>>

\* as OnExecutionContextsCleared, with every breakpoint marked unverified
OnExecutionContextsClearedUnverifying ==
    /\ connection = "open"
    /\ received.clears < MaxClears
    /\ HandshakeAnswered
    /\ threads' = <<>>
    /\ sourceMaps' = <<>>
    /\ variableStore' = clearCDPVariables(clearReplVariables(variableStore))
    /\ handed' = {}
    /\ bpObjs' = [o \in DOMAIN bpObjs |-> [bpObjs[o] EXCEPT !.verified = FALSE]]
    /\ dapOut' = SeqMap(LAMBDA thread : ThreadEvent("exited", thread.id), threads)
                 \o <<OutputEvent("\\x1b[2J", "console")>>
    /\ outbox' = <<>>
    /\ received' = [received EXCEPT !.clears = @ + 1, !.stale = Len(parsing)]
    /\ UNCHANGED retryCall
    /\ last' = [op |-> "executionContextsCleared", allThreads |-> threads,
                hadMaps |-> sourceMaps # <<>>,
                hadHandles |-> variableStore.cdp # {} /\ variableStore.repl # {}]
    /\ UNCHANGED <<pausedStackFrames, pausedScopeChains, pauseTasks>>
    /\ UNCHANGED <<connection, sourceMapAliases, expoPreludeLineCount, parsing,
                   cdpMessageId, cdpMessagePromises, breakpoints, requests,
                   rtNextBreakpointId, sentIds, rtRemoved, answered>>

\* case "Runtime.executionContextsCleared"
OnExecutionContextsCleared ==
    /\ connection = "open"
    /\ received.clears < MaxClears
    /\ HandshakeAnswered
    /\ threads' = <<>>
    /\ sourceMaps' = <<>>
    /\ variableStore' = clearCDPVariables(clearReplVariables(variableStore))
    /\ handed' = {}
    /\ dapOut' = SeqMap(LAMBDA thread : ThreadEvent("exited", thread.id), threads)
                 \o <<OutputEvent("\\x1b[2J", "console")>>
    /\ outbox' = <<>>
    /\ received' = [received EXCEPT !.clears = @ + 1, !.stale = Len(parsing)]
    /\ UNCHANGED retryCall
    /\ last' = [op |-> "executionContextsCleared", allThreads |-> threads,
                hadMaps |-> sourceMaps # <<>>,
                hadHandles |-> variableStore.cdp # {} /\ variableStore.repl # {}]
    /\ UNCHANGED <<pausedStackFrames, pausedScopeChains, pauseTasks>>
    /\ UNCHANGED <<connection, sourceMapAliases, expoPreludeLineCount, parsing,
                   cdpMessageId, cdpMessagePromises, bpObjs, breakpoints, requests,
                   rtNextBreakpointId, sentIds, rtRemoved, answered>>

----------------------------------------------------------------------------
(* Threads, pauses and the console *)

Thread(id, name) == [id |-> id, name |-> name]

\* case "Runtime.executionContextCreated"
OnExecutionContextCreated(context) ==
    /\ connection = "open"
    /\ received.contexts < MaxContexts
    /\ HandshakeAnswered
    /\ dapOut' = <<ThreadEvent("started", context.id)>>
    /\ threads' = Append(threads, Thread(context.id, context.name))
    /\ outbox' = <<>>
    /\ received' = [received EXCEPT !.contexts = @ + 1]
    /\ UNCHANGED retryCall
    /\ last' = [op |-> "executionContextCreated", context |-> context]
    /\ UNCHANGED pauseVars
    /\ UNCHANGED <<connection, sourceMapAliases, expoPreludeLineCount, sourceMaps, parsing,
                   cdpMessageId, cdpMessagePromises, bpObjs, breakpoints, requests,
                   rtNextBreakpointId, sentIds, rtRemoved, answered>>

\* a handleDebuggerPaused call that has asked for the local scope of the error reporter
PauseTask(params) ==
    [params |-> params, stackFrames |-> <<>>, waiting |-> 0, entries |-> 0,
     status |-> "running", errorMessage |-> "", isFatal |-> ""]

\* case "Debugger.paused": handleDebuggerPaused up to its first await, or to its end
\* when the pause is not the error reporter's
OnPaused(params) ==
    /\ connection = "open"
    /\ received.pauses < MaxPauses
    /\ HandshakeAnswered
    /\ received' = [received EXCEPT !.pauses = @ + 1]
    /\ IF IsExceptionPause(params)
       THEN LET adapted == adaptCDPObjectId(variableStore, LocalScopeObjectId(params))
                task == Len(pauseTasks) + 1
            IN  /\ pausedStackFrames' = <<>>
                /\ pausedScopeChains' = <<>>
                /\ variableStore' = adapted.store
                /\ pauseTasks' = Append(pauseTasks, PauseTask(params))
                /\ sendCDPMessage(
                      << GetPropertiesCall(LocalScopeObjectId(params),
                            PauseContinuation(1, task, LocalScopeObjectId(params), 0)) >>,
                      cdpMessagePromises)
                /\ dapOut' = <<>>
                /\ UNCHANGED retryCall
                /\ last' = [op |-> "paused", params |-> params, built |-> Null]
       ELSE /\ pausedStackFrames' = FramesOf(params)
            /\ pausedScopeChains' = ScopeChainsOf(params)
            /\ dapOut' = StoppedEvents("breakpoint", "Yollo", EmptyObject)
            /\ outbox' = <<>>
            /\ UNCHANGED retryCall
            /\ last' = [op |-> "paused", params |-> params,
                        built |-> [frames |-> FramesOf(params),
                                   scopeChains |-> ScopeChainsOf(params)]]
            /\ UNCHANGED <<variableStore, pauseTasks, cdpMessageId, cdpMessagePromises,
                           sentIds, rtRemoved>>
    /\ UNCHANGED <<connection, sourceMapAliases, expoPreludeLineCount, threads, sourceMaps,
                   parsing, bpObjs, breakpoints, requests, rtNextBreakpointId, answered,
                   handed>>

ContinuedEvent(threadId) == [type |-> "event", event |-> "continued", threadId |-> threadId]

\* case "Debugger.resumed"; `this.threads[0].id` throws when there is no thread
OnResumed ==
    /\ connection = "open"
    /\ received.resumes < MaxResumes
    /\ HandshakeAnswered
    /\ dapOut' = IF threads = <<>> THEN <<>> ELSE <<ContinuedEvent(threads[1].id)>>
    /\ outbox' = <<>>
    /\ received' = [received EXCEPT !.resumes = @ + 1]
    /\ UNCHANGED retryCall
    /\ last' = [op |-> "resumed"]
    /\ UNCHANGED pauseVars
    /\ UNCHANGED <<connection, sourceMapAliases, expoPreludeLineCount, threads, sourceMaps,
                   parsing, cdpMessageId, cdpMessagePromises, bpObjs, breakpoints, requests,
                   rtNextBreakpointId, sentIds, rtRemoved, answered>>

typeToCategory(type) == IF type \in {"warning", "error"} THEN "stderr" ELSE "stdout"

\* `arg${index}`
ArgName(index) ==
    CASE index = 0 -> "arg0" [] index = 1 -> "arg1" [] index = 2 -> "arg2"
      [] index = 3 -> "arg3" [] OTHER -> "arg4"

\* the callback of args.map in createVariableForOutputEvent: an object among the
\* arguments gets its handle; the named values are kept as the editor will see them
RECURSIVE AdaptArgs(_, _, _)
AdaptArgs(store, args, acc) ==
    IF args = <<>> THEN [store |-> store, variables |-> acc]
    ELSE IF Head(args).type = "object"
         THEN LET adapted == adaptCDPObjectId(store, Head(args).objectId)
              IN  AdaptArgs(adapted.store, Tail(args),
                            Append(acc, [name |-> ArgName(Len(acc)), value |-> "Object",
                                         variablesReference |-> adapted.handle]))
         ELSE AdaptArgs(store, Tail(args),
                        Append(acc, [name |-> ArgName(Len(acc)), value |-> Head(args).value,
                                     variablesReference |-> 0]))

createVariableForOutputEvent(store, args) ==
    LET adapted == AdaptArgs(store, args, <<>>)
        argsObject == pushReplVariable(adapted.store, adapted.variables)
    IN  pushReplVariable(argsObject.store,
                         << [name |-> "", value |-> "object",
                             variablesReference |-> argsObject.handle] >>)

\* as IsInternalLog, tested after the test for the arguments of the wrapper
IsInternalLogWithoutStackInfo(params) ==
    /\ ~(Len(params.args) > 3 /\ params.args[Len(params.args)].type = "number")
    /\ Len(params.args) > 0
    /\ "value" \in DOMAIN params.args[1]
    /\ params.args[1].type = "string"
    /\ params.args[1].value = "__RNIDE_INTERNAL"

IsInternalLog(params) ==
    /\ Len(params.args) > 0
    /\ "value" \in DOMAIN params.args[1]
    /\ params.args[1].type = "string"
    /\ params.args[1].value = "__RNIDE_INTERNAL"

HasStackInfo(params) ==
    Len(params.args) > 3 /\ params.args[Len(params.args)].type = "number"

\* the OutputEvent of a console call, with the fields added to its body
ConsoleOutput(args, category, variablesReference, position) ==
    [type |-> "event", event |-> "output", output |-> args, category |-> category,
     variablesReference |-> variablesReference, position |-> position]

\* case "Runtime.consoleAPICalled": handleConsoleAPICall
OnConsoleAPICalled(params) ==
    LET argsLen == Len(params.args)
        shown == IF HasStackInfo(params) THEN SubSeq(params.args, 1, argsLen - 3)
                 ELSE params.args
        made == createVariableForOutputEvent(variableStore, shown)
        position == IF HasStackInfo(params)
                    THEN findOriginalPosition([url |-> params.args[argsLen - 2].value],
                                              params.args[argsLen - 1].value,
                                              params.args[argsLen].value - 1)
                    ELSE Null
    IN  /\ connection = "open"
        /\ received.logs < MaxLogs
        /\ HandshakeAnswered
        /\ received' = [received EXCEPT !.logs = @ + 1]
        /\ outbox' = <<>>
        /\ UNCHANGED retryCall
        /\ last' = [op |-> "consoleAPICalled", params |-> params]
        /\ IF IsInternalLog(params)
           THEN /\ dapOut' = <<>>
                /\ UNCHANGED <<variableStore, handed>>
           ELSE /\ variableStore' = made.store
                /\ handed' = handed \cup {made.handle}
                /\ dapOut' = << ConsoleOutput(shown, typeToCategory(params.type),
                                              made.handle, position),
                                Event("RNIDE_consoleLog",
                                      [category |-> typeToCategory(params.type)]) >>
        /\ UNCHANGED <<pausedStackFrames, pausedScopeChains, pauseTasks>>
        /\ UNCHANGED <<connection, sourceMapAliases, expoPreludeLineCount, threads,
                       sourceMaps, parsing, cdpMessageId, cdpMessagePromises, bpObjs,
                       breakpoints, requests, rtNextBreakpointId, sentIds, rtRemoved, answered>>

----------------------------------------------------------------------------
(* The requests of the editor about a pause *)

\* stackTraceRequest
stackTraceRequest ==
    /\ received.editor < MaxEditorRequests
    /\ dapOut' = << [type |-> "response", command |-> "stackTrace",
                     stackFrames |-> pausedStackFrames] >>
    /\ outbox' = <<>>
    /\ received' = [received EXCEPT !.editor = @ + 1]
    /\ UNCHANGED retryCall
    /\ last' = [op |-> "stackTraceRequest"]
    /\ UNCHANGED pauseVars
    /\ UNCHANGED <<connection, sourceMapAliases, expoPreludeLineCount, threads, sourceMaps,
                   parsing, cdpMessageId, cdpMessagePromises, bpObjs, breakpoints, requests,
                   rtNextBreakpointId, sentIds, rtRemoved, answered>>

\* scope.type.toUpperCase()
ToUpperCase(type) ==
    CASE type = "local" -> "LOCAL" [] type = "global" -> "GLOBAL"
      [] type = "closure" -> "CLOSURE" [] OTHER -> "BLOCK"

ScopeName(scope) ==
    IF scope.type = "closure" THEN "CLOSURE"
    ELSE IF scope.name # "" THEN scope.name ELSE ToUpperCase(scope.type)

\* the callback of pausedScopeChains[frameId].map in scopesRequest
RECURSIVE AdaptScopes(_, _, _)
AdaptScopes(store, chain, acc) ==
    IF chain = <<>> THEN [store |-> store, scopes |-> acc]
    ELSE LET adapted == adaptCDPObjectId(store, Head(chain).object.objectId)
         IN  AdaptScopes(adapted.store, Tail(chain),
                         Append(acc, [name |-> ScopeName(Head(chain)),
                                      variablesReference |-> adapted.handle,
                                      expensive |-> Head(chain).type # "local"]))

FrameIds == {0, 1}

\* scopesRequest: `this.pausedScopeChains[args.frameId]?.map(...) || []`
scopesRequest(frameId) ==
    LET made == IF frameId + 1 \in DOMAIN pausedScopeChains
                THEN AdaptScopes(variableStore, pausedScopeChains[frameId + 1], <<>>)
                ELSE [store |-> variableStore, scopes |-> <<>>]
    IN  /\ received.editor < MaxEditorRequests
        /\ variableStore' = made.store
        /\ handed' = handed \cup ReferencesIn(made.scopes)
        /\ dapOut' = << [type |-> "response", command |-> "scopes",
                         scopes |-> made.scopes] >>
        /\ outbox' = <<>>
        /\ received' = [received EXCEPT !.editor = @ + 1]
        /\ UNCHANGED retryCall
        /\ last' = [op |-> "scopesRequest", frameId |-> frameId,
                    again |-> made.scopes # <<>> /\ made.store = variableStore]
        /\ UNCHANGED <<pausedStackFrames, pausedScopeChains, pauseTasks>>
        /\ UNCHANGED <<connection, sourceMapAliases, expoPreludeLineCount, threads,
                       sourceMaps, parsing, cdpMessageId, cdpMessagePromises, bpObjs,
                       breakpoints, requests, rtNextBreakpointId, sentIds, rtRemoved, answered>>

\* variablesRequest up to the await of variableStore.get: the list of the adapter's own
\* value is there at once, the properties of a runtime object are asked for, and a
\* handle the store does not know has no variables
variablesRequest(variablesReference) ==
    /\ received.editor < MaxEditorRequests
    /\ received' = [received EXCEPT !.editor = @ + 1]
    /\ IF IsReplVariable(variableStore, variablesReference)
       THEN /\ dapOut' = <<VariablesResponse(ReplVariables(variableStore,
                                                           variablesReference))>>
            /\ handed' = handed \cup ReferencesIn(ReplVariables(variableStore,
                                                                variablesReference))
            /\ outbox' = <<>>
            /\ UNCHANGED retryCall
            /\ last' = [op |-> "variablesRequest", ref |-> variablesReference,
                        outcome |-> "answered"]
            /\ UNCHANGED <<cdpMessageId, cdpMessagePromises, sentIds, rtRemoved>>
       ELSE IF IsCDPVariable(variableStore, variablesReference)
       THEN /\ sendCDPMessage(
                  << GetPropertiesCall(RemoteIdOf(variableStore, variablesReference),
                        [kind |-> "variablesRequest",
                         objectId |-> RemoteIdOf(variableStore, variablesReference),
                         ref |-> variablesReference]) >>,
                  cdpMessagePromises)
            /\ dapOut' = <<>>
            /\ UNCHANGED retryCall
            /\ last' = [op |-> "variablesRequest", ref |-> variablesReference,
                        outcome |-> "fetching"]
            /\ UNCHANGED handed
       ELSE /\ dapOut' = <<VariablesResponse(UnknownHandleVariables)>>
            /\ outbox' = <<>>
            /\ UNCHANGED retryCall
            /\ last' = [op |-> "variablesRequest", ref |-> variablesReference,
                        outcome |-> "unknown"]
            /\ UNCHANGED <<cdpMessageId, cdpMessagePromises, sentIds, rtRemoved, handed>>
    /\ UNCHANGED <<pausedStackFrames, pausedScopeChains, variableStore, pauseTasks>>
    /\ UNCHANGED <<connection, sourceMapAliases, expoPreludeLineCount, threads, sourceMaps,
                   parsing, bpObjs, breakpoints, requests, rtNextBreakpointId, answered>>

Expressions == {"o"}

\* evaluateRequest up to the await of sendCDPMessage
evaluateRequest(expression) ==
    /\ received.editor < MaxEditorRequests
    /\ received' = [received EXCEPT !.editor = @ + 1]
    /\ sendCDPMessage(<< Call("Runtime.evaluate", [expression |-> expression],
                              [kind |-> "evaluateRequest"]) >>,
                      cdpMessagePromises)
    /\ dapOut' = <<>>
    /\ UNCHANGED retryCall
    /\ last' = [op |-> "evaluateRequest", expression |-> expression]
    /\ UNCHANGED pauseVars
    /\ UNCHANGED <<connection, sourceMapAliases, expoPreludeLineCount, threads, sourceMaps,
                   parsing, bpObjs, breakpoints, requests, rtNextBreakpointId, answered>>

----------------------------------------------------------------------------
(* The adapter after construction, and its steps *)

----------------------------------------------------------------------------
(* utilities/retry.ts *)

\* no call of retry is under way
NotCalled == [pc |-> "none"]

\* the retriesLeft of a call
RetriesLeftInputs == -2..3

\* fn: whether its first, second, ... call resolves or rejects; call k resolves to the
\* value k or rejects with the error k
FnOutcomes == [1..MaxCalls -> {"resolves", "rejects"}]

\* retry(fn, retriesLeft) as it is called: no call of fn yet
RetryCalls ==
    {[pc |-> "try", fn |-> fn, given |-> n, retriesLeft |-> n, calls |-> 0,
      value |-> 0, error |-> 0] : fn \in FnOutcomes, n \in RetriesLeftInputs}

\* `const val = await fn(); return val;`, or the rejection caught
RetryAwaitFn ==
    /\ retryCall.pc = "try"
    /\ retryCall.calls < MaxCalls
    /\ LET k == retryCall.calls + 1
       IN  retryCall' = IF retryCall.fn[k] = "resolves"
                        THEN [retryCall EXCEPT !.calls = k, !.pc = "returned", !.value = k]
                        ELSE [retryCall EXCEPT !.calls = k, !.pc = "catch", !.error = k]
    /\ UNCHANGED adapterVars

\* `if (retriesLeft)`: 0 is falsy, every other integer is truthy
RetryCatch ==
    /\ retryCall.pc = "catch"
    /\ retryCall' = IF retryCall.retriesLeft # 0
                    THEN [retryCall EXCEPT !.pc = "timeout"]
                    ELSE [retryCall EXCEPT !.pc = "thrown"]
    /\ UNCHANGED adapterVars

\* the timer fires: `return retry(fn, retriesLeft - 1, interval)`
RetryAgain ==
    /\ retryCall.pc = "timeout"
    /\ retryCall' = [retryCall EXCEPT !.pc = "try", !.retriesLeft = @ - 1]
    /\ UNCHANGED adapterVars

Init ==
    /\ connection = "connecting"
    /\ sourceMapAliases \in AliasConfigs
    /\ expoPreludeLineCount \in {0}
    /\ threads = <<>>
    /\ sourceMaps = <<>>
    /\ parsing = <<>>
    /\ cdpMessageId = 0
    /\ cdpMessagePromises = <<>>
    /\ bpObjs = <<>>
    /\ breakpoints = <<>>
    /\ requests = <<>>
    /\ rtNextBreakpointId = 1
    /\ sentIds = <<>>
    /\ rtRemoved = {}
    /\ answered = {}
    /\ outbox = <<>>
    /\ dapOut = <<>>
    /\ received = [scripts |-> 0, clears |-> 0, stale |-> 0, contexts |-> 0, pauses |-> 0,
                   resumes |-> 0, logs |-> 0, editor |-> 0]
    /\ last = [op |-> "init"]
    /\ pausedStackFrames = <<>>
    /\ pausedScopeChains = <<>>
    /\ variableStore = EmptyStore
    /\ pauseTasks = <<>>
    /\ handed = {}
    /\ retryCall = NotCalled

Next ==
    \/ OnOpen
    \/ OnClose
    \/ \E id \in Answerable : \E payload \in ResponsesFor(id) : OnResponse(id, payload)
    \/ \E params \in Scripts : OnScriptParsed(params)
    \/ \E k \in DOMAIN parsing : OnSourceMapConsumerReady(k)
    \/ OnExecutionContextsCleared
    \/ \E sourcePath \in EditorPaths : \E args \in BreakpointArgs :
          setBreakPointsRequest(sourcePath, args)

Spec == Init /\ [][Next]_vars

\* the steps of a session in which the runtime pauses, logs and is inspected
PauseNext ==
    \/ OnOpen
    \/ \E id \in Answerable : \E payload \in ResponsesFor(id) : OnResponse(id, payload)
    \/ \E context \in Contexts : OnExecutionContextCreated(context)
    \/ \E params \in Pauses : OnPaused(params)
    \/ \E params \in ConsoleCalls : OnConsoleAPICalled(params)
    \/ OnExecutionContextsCleared
    \/ \E frameId \in FrameIds : scopesRequest(frameId)
    \/ \E variablesReference \in handed : variablesRequest(variablesReference)
    \/ \E expression \in Expressions : evaluateRequest(expression)

PauseSpec == Init /\ [][PauseNext]_vars

\* the steps of a session in which the runtime pauses and goes on
ResumeNext ==
    \/ OnOpen
    \/ \E id \in Answerable : \E payload \in ResponsesFor(id) : OnResponse(id, payload)
    \/ \E context \in Contexts : OnExecutionContextCreated(context)
    \/ \E params \in Pauses : OnPaused(params)
    \/ OnResumed
    \/ stackTraceRequest
    \/ \E frameId \in FrameIds : scopesRequest(frameId)

ResumeSpec == Init /\ [][ResumeNext]_vars

\* the steps of a session that loads scripts, starts threads, logs and is reloaded
ReloadNext ==
    \/ OnOpen
    \/ \E id \in Answerable : \E payload \in ResponsesFor(id) : OnResponse(id, payload)
    \/ \E params \in Scripts : OnScriptParsed(params)
    \/ \E k \in DOMAIN parsing : OnSourceMapConsumerReady(k)
    \/ \E context \in Contexts : OnExecutionContextCreated(context)
    \/ \E params \in ConsoleCalls : OnConsoleAPICalled(params)
    \/ OnExecutionContextsCleared

ReloadSpec == Init /\ [][ReloadNext]_vars

\* the adapter after construction, for every configuration of the Position Translator
TranslatorInit ==
    /\ connection = "connecting"
    /\ sourceMapAliases \in TranslatorAliasConfigs
    /\ expoPreludeLineCount \in PreludeLineCounts
    /\ threads = <<>>
    /\ sourceMaps = <<>>
    /\ parsing = <<>>
    /\ cdpMessageId = 0
    /\ cdpMessagePromises = <<>>
    /\ bpObjs = <<>>
    /\ breakpoints = <<>>
    /\ requests = <<>>
    /\ rtNextBreakpointId = 1
    /\ sentIds = <<>>
    /\ rtRemoved = {}
    /\ answered = {}
    /\ outbox = <<>>
    /\ dapOut = <<>>
    /\ received = [scripts |-> 0, clears |-> 0, stale |-> 0, contexts |-> 0, pauses |-> 0,
                   resumes |-> 0, logs |-> 0, editor |-> 0]
    /\ last = [op |-> "init"]
    /\ pausedStackFrames = <<>>
    /\ pausedScopeChains = <<>>
    /\ variableStore = EmptyStore
    /\ pauseTasks = <<>>
    /\ handed = {}
    /\ retryCall = NotCalled

\* the steps that register source maps and translate positions
TranslatorNext ==
    \/ OnOpen
    \/ \E id \in Answerable : \E payload \in ResponsesFor(id) : OnResponse(id, payload)
    \/ \E params \in TranslatorScripts : OnScriptParsed(params)
    \/ \E k \in DOMAIN parsing : OnSourceMapConsumerReady(k)
    \/ \E params \in TranslatorPauses : OnPaused(params)
    \/ /\ requests = <<>>
       /\ \E sourcePath \in EditorPaths : \E b \in {x \in SourceBreakpoints : x.line = 10} :
             setBreakPointsRequest(sourcePath, <<b>>)

TranslatorSpec == TranslatorInit /\ [][TranslatorNext]_vars

\* the steps of a session in which the error reporter stops the runtime
StackNext ==
    \/ OnOpen
    \/ \E id \in Answerable : \E payload \in ResponsesFor(id) : OnResponse(id, payload)
    \/ /\ received.scripts = 0
       /\ \E params \in {script \in TranslatorScripts : script.url = BundleURL} :
             OnScriptParsed(params)
    \/ \E k \in DOMAIN parsing : OnSourceMapConsumerReady(k)
    \/ \E context \in Contexts : OnExecutionContextCreated(context)
    \/ \E params \in StackPauses : OnPaused(params)

StackSpec == Init /\ [][StackNext]_vars

\* a message that is neither a response nor a known event: `default: break`
OnUnrecognized(method) ==
    /\ connection = "open"
    /\ dapOut' = <<>>
    /\ outbox' = <<>>
    /\ UNCHANGED retryCall
    /\ last' = [op |-> "ignored", method |-> method]
    /\ UNCHANGED pauseVars
    /\ UNCHANGED <<connection, sourceMapAliases, expoPreludeLineCount, threads, sourceMaps,
                   parsing, cdpMessageId, cdpMessagePromises, bpObjs, breakpoints, requests,
                   rtNextBreakpointId, sentIds, rtRemoved, answered, received>>

\* as IsResponse, a message that names a method counting as an event
IsResponseWithoutMethod(message) ==
    /\ "method" \notin DOMAIN message
    /\ "result" \in DOMAIN message \/ "error" \in DOMAIN message

\* `message.result || message.error`: the results and errors of the runtime are objects
IsResponse(message) == "result" \in DOMAIN message \/ "error" \in DOMAIN message

\* the cases of `switch (message.method)`
RecognizedMethods ==
    {"Runtime.executionContextCreated", "Debugger.scriptParsed", "Debugger.paused",
     "Debugger.resumed", "Runtime.executionContextsCleared", "Runtime.consoleAPICalled"}

\* `switch (message.method)`
OnEvent(message) ==
    \/ /\ message.method = "Runtime.executionContextCreated"
       /\ \E context \in {message.params.context} : OnExecutionContextCreated(context)
    \/ /\ message.method = "Debugger.scriptParsed"
       /\ \E params \in {message.params} : OnScriptParsed(params)
    \/ /\ message.method = "Debugger.paused"
       /\ \E params \in {message.params} : OnPaused(params)
    \/ /\ message.method = "Debugger.resumed"
       /\ OnResumed
    \/ /\ message.method = "Runtime.executionContextsCleared"
       /\ OnExecutionContextsCleared
    \/ /\ message.method = "Runtime.consoleAPICalled"
       /\ \E params \in {message.params} : OnConsoleAPICalled(params)
    \/ /\ message.method \notin RecognizedMethods
       /\ \E method \in {message.method} : OnUnrecognized(method)

\* the listener of connection.on("message"), on the parsed message
OnMessage(message) ==
    \/ /\ IsResponse(message)
       /\ \E id \in {message.id} :
          \E payload \in {[f \in DOMAIN message \cap {"result", "error"} |-> message[f]]} :
             OnResponse(id, payload)
    \/ /\ ~IsResponse(message)
       /\ OnEvent(message)

\* an id the adapter has never sent: `cdpMessageId = 0`, and every request carries
\* `++this.cdpMessageId`
UnsentId == 0

\* the ids a response can carry: of a pending request, or of none
ResponseIds == Answerable \cup {UnsentId}

ResponsePayloads(id) ==
    IF id \in DOMAIN cdpMessagePromises THEN ResponsesFor(id)
    ELSE {[result |-> EmptyObject], [error |-> [code |-> -32000, message |-> "No such request"]]}

\* what a message has besides its payload: nothing, or the name of a method
MethodFields == {<<>>, [method |-> "Debugger.paused", params |-> BreakpointPause]}

ResponseMessages ==
    UNION {{[id |-> id] @@ payload @@ extra : payload \in ResponsePayloads(id),
                                              extra \in MethodFields} : id \in ResponseIds}

\* the events of the runtime, one of them unknown to the adapter, and an event that
\* carries an id
EventMessages ==
    {[method |-> "Runtime.executionContextCreated", params |-> [context |-> context]] :
        context \in Contexts}
    \cup {[method |-> "Debugger.scriptParsed", params |-> params] :
             params \in {script \in Scripts : script.sourceMap = Null /\ received.scripts = 0}}
    \cup {[method |-> "Runtime.consoleAPICalled", params |-> params] :
             params \in {call \in ConsoleCalls : Len(call.args) = 1}
                        \cup {InternalCallWithStack}}
    \cup {[method |-> "Debugger.paused", params |-> params] :
             params \in IF received.pauses = 0 THEN {ExceptionPause} ELSE {}}
    \cup {[method |-> method, params |-> [none |-> TRUE]] :
             method \in {"Debugger.resumed", "Runtime.executionContextsCleared",
                         "Debugger.breakpointResolved"}}
    \cup {[id |-> id, method |-> "Debugger.resumed", params |-> [none |-> TRUE]] :
             id \in DOMAIN cdpMessagePromises}

\* the messages of the runtime
Messages == ResponseMessages \cup EventMessages

\* the listener runs on each message of the runtime
MessageNext ==
    \/ OnOpen
    \/ \E message \in Messages :
          /\ IsResponse(message)
          /\ \E id \in {message.id} :
             \E payload \in {[f \in DOMAIN message \cap {"result", "error"} |-> message[f]]} :
                OnResponse(id, payload)
    \/ \E message \in Messages :
          /\ ~IsResponse(message)
          /\ OnEvent(message)

MessageSpec == Init /\ [][MessageNext]_vars

\* a call of retry, for every fn and retriesLeft of the inputs
RetryInit ==
    /\ connection = "connecting"
    /\ sourceMapAliases \in AliasConfigs
    /\ expoPreludeLineCount \in {0}
    /\ threads = <<>>
    /\ sourceMaps = <<>>
    /\ parsing = <<>>
    /\ cdpMessageId = 0
    /\ cdpMessagePromises = <<>>
    /\ bpObjs = <<>>
    /\ breakpoints = <<>>
    /\ requests = <<>>
    /\ rtNextBreakpointId = 1
    /\ sentIds = <<>>
    /\ rtRemoved = {}
    /\ answered = {}
    /\ outbox = <<>>
    /\ dapOut = <<>>
    /\ received = [scripts |-> 0, clears |-> 0, stale |-> 0, contexts |-> 0, pauses |-> 0,
                   resumes |-> 0, logs |-> 0, editor |-> 0]
    /\ last = [op |-> "init"]
    /\ pausedStackFrames = <<>>
    /\ pausedScopeChains = <<>>
    /\ variableStore = EmptyStore
    /\ pauseTasks = <<>>
    /\ handed = {}
    /\ retryCall \in RetryCalls

RetryNext ==
    \/ RetryAwaitFn
    \/ RetryCatch
    \/ RetryAgain

RetrySpec == RetryInit /\ [][RetryNext]_vars

----------------------------------------------------------------------------
(* The breakpoints the adapter tracks *)

Tracked == UNION {Range(breakpoints[p]) : p \in DOMAIN breakpoints}

\* the requests in flight that set breakpoint o
SettingsInFlight(o) ==
    {id \in DOMAIN cdpMessagePromises :
        /\ cdpMessagePromises[id].method = "Debugger.setBreakpointByUrl"
        /\ cdpMessagePromises[id].cont.bp = o}

----------------------------------------------------------------------------
(* Claims *)

\* C1: every tracked breakpoint that is verified has a runtime breakpoint id, whatever
\* the interleaving of setBreakpoints requests, scriptParsed events and answers
C1_VerifiedHasRuntimeId ==
    \A o \in Tracked : bpObjs[o].verified => bpObjs[o].id # Undefined

\* a breakpoint set before the script was known, verified by the answer to the request
\* the script load made for it
C1_Witness ==
    /\ last.op = "response"
    /\ last.kind = "updateBreakpointsInSource"
    /\ \E o \in Tracked : bpObjs[o].verified /\ bpObjs[o].id # Undefined

\* C2: every call of sendCDPMessage uses an id greater than the id of every earlier
\* call; no id is used twice, also not after Runtime.executionContextsCleared
C2_IdsStrictlyIncrease ==
    \A i, j \in DOMAIN sentIds : i < j => sentIds[i] < sentIds[j]

\* a request sent after the contexts were cleared
C2_Witness ==
    /\ received.clears > 0
    /\ last.op \in {"sourceMapReady", "setBreakpoints"}
    /\ outbox # <<>>

\* the step of C3: the answer to a pending request settles that request's promise,
\* removes its entry and leaves every other entry as it was
C3_AnswerStep ==
    answered' # answered =>
        \E id \in DOMAIN cdpMessagePromises :
            /\ answered' = answered \cup {id}
            /\ last'.id = id
            /\ last'.settled \in {"resolved", "rejected"}
            /\ cdpMessagePromises' =
                  [k \in DOMAIN cdpMessagePromises \ {id} |-> cdpMessagePromises[k]]

\* C3: an answer settles and removes exactly the pending entry of its id, and the
\* pending map always holds exactly the ids sent and not yet answered
C3_PendingExactlyUnanswered ==
    /\ [](DOMAIN cdpMessagePromises = Range(sentIds) \ answered)
    /\ [][C3_AnswerStep]_vars

\* one of two breakpoint requests in flight is answered, the other stays pending
C3_Witness ==
    /\ last.op = "response"
    /\ last.id > HandshakeLength
    /\ last.id \notin DOMAIN cdpMessagePromises
    /\ \E k \in DOMAIN cdpMessagePromises :
          k # last.id /\ cdpMessagePromises[k].method = "Debugger.setBreakpointByUrl"

\* C4: when the socket closes, every request still pending is rejected, so that no
\* request stays unsettled for ever
C4_CloseSettlesPending ==
    last.op = "close" => DOMAIN cdpMessagePromises = {}

\* C5: on socket close the adapter sends TerminatedEvent and leaves the pending map
\* as it is: the close settles no promise and runs no continuation
C5_CloseLeavesPending ==
    [][connection' = "closed" /\ connection # "closed" =>
          /\ dapOut' = <<TerminatedEvent>>
          /\ cdpMessagePromises' = cdpMessagePromises
          /\ answered' = answered
          /\ requests' = requests
          /\ bpObjs' = bpObjs]_vars

\* the socket closed while a setBreakpoints request waits for the runtime
C5_Witness ==
    /\ last.op = "close"
    /\ dapOut = <<TerminatedEvent>>
    /\ \E k \in DOMAIN cdpMessagePromises :
          cdpMessagePromises[k].cont.kind = "setBreakPointsRequest"

\* C6: an answer with an error payload rejects the promise of its request, never
\* resolves it, with an error object that has every field of the payload, and the
\* handler sends no request again
C6_ErrorRejectsWithAllFields ==
    (last.op = "response" /\ "error" \in DOMAIN last.payload) =>
        /\ last.settled = "rejected"
        /\ \A f \in DOMAIN last.payload.error :
              f \in DOMAIN last.value /\ last.value[f] = last.payload.error[f]
        /\ outbox = <<>>

\* a setBreakpointByUrl request answered with an error that carries a data field
C6_Witness ==
    /\ last.op = "response"
    /\ last.kind = "setBreakPointsRequest"
    /\ last.settled = "rejected"
    /\ "data" \in DOMAIN last.payload.error
    /\ last.value.data = "detail"

\* C7: two setBreakpoints requests for one path are serialized, the later one starts
\* when the earlier one has settled, and no breakpoint has two setBreakpointByUrl
\* requests in flight at once
C7_RequestsSerialized ==
    /\ last.op = "setBreakpoints" =>
          \A r \in 1..(last.request - 1) :
              requests[r].path = last.path => requests[r].status # "pending"
    /\ \A o \in DOMAIN bpObjs : Cardinality(SettingsInFlight(o)) <= 1

\* the requests of the step that follows, by the breakpoint they are sent for
SentFor(o) ==
    {k \in DOMAIN outbox' :
        /\ cdpMessagePromises'[outbox'[k].id].cont.kind # "none"
        /\ cdpMessagePromises'[outbox'[k].id].cont.bp = o}

RemovalsSent ==
    SelectSeq(outbox', LAMBDA m : m.method = "Debugger.removeBreakpoint")

\* the step of C8, a setBreakpoints request
C8_ReuseStep ==
    Len(requests') = Len(requests) + 1 =>
        LET args == last'.args
            previous == BreakpointsOf(last'.path)
            list == breakpoints'[last'.path]
        IN  \A i \in DOMAIN args : \A o \in Range(previous) :
                SameLocation(bpObjs[o], args[i]) =>
                    /\ list[i] = o
                    /\ requests'[Len(requests')].breakpoints[i] = o
                    /\ bpObjs'[o] = bpObjs[o]
                    /\ dapOut' # <<>> =>
                          /\ dapOut'[1].breakpoints[i].ref = o
                          /\ dapOut'[1].breakpoints[i].verified = bpObjs[o].verified
                          /\ dapOut'[1].breakpoints[i].id = bpObjs[o].id
                    /\ bpObjs[o].verified =>
                          /\ SentFor(o) = {}
                          /\ \A k \in DOMAIN RemovalsSent :
                                RemovalsSent[k].params.breakpointId # bpObjs[o].id

\* C8, as the code has it: a requested (line, column) that is tracked for the path is
\* answered with the tracked breakpoint object, which the diff leaves as it is; when it
\* is verified the request sends no setBreakpointByUrl and no removeBreakpoint for it.
\* When it is not verified it is resolved again, and the answer can carry a new
\* verified flag and id.
C8_TrackedIsReused == [][C8_ReuseStep]_vars

\* a request answered at once with the verified breakpoint it found tracked
C8_Witness ==
    /\ last.op = "setBreakpoints"
    /\ dapOut # <<>>
    /\ \E i \in DOMAIN requests[last.request].tracked :
          /\ requests[last.request].tracked[i] # Null
          /\ requests[last.request].tracked[i].verified
          /\ dapOut[1].breakpoints[i].id = requests[last.request].tracked[i].id

\* C8 as stated: the answer of a request carries every breakpoint the request found
\* tracked with the verified flag and id it had then
C8_AnswerUnchanged ==
    \A n \in DOMAIN dapOut :
        (dapOut[n].type = "response" /\ dapOut[n].command = "setBreakpoints") =>
            \A i \in DOMAIN dapOut[n].breakpoints :
                LET before == requests[dapOut[n].request].tracked[i]
                IN  before # Null =>
                        /\ dapOut[n].breakpoints[i].verified = before.verified
                        /\ dapOut[n].breakpoints[i].id = before.id

\* the step of C9, a setBreakpoints request
C9_RemoveStep ==
    Len(requests') = Len(requests) + 1 =>
        LET args == last'.args
            previous == BreakpointsOf(last'.path)
            gone == {o \in Range(previous) :
                        /\ bpObjs[o].verified
                        /\ ~ \E i \in DOMAIN args : SameLocation(bpObjs[o], args[i])}
        IN  /\ \A o \in gone :
                  /\ Cardinality({k \in DOMAIN RemovalsSent :
                        RemovalsSent[k].params.breakpointId = bpObjs[o].id}) = 1
                  /\ o \notin Range(breakpoints'[last'.path])
            /\ \A k \in DOMAIN RemovalsSent :
                  \E o \in gone : RemovalsSent[k].params.breakpointId = bpObjs[o].id
            /\ Len(RemovalsSent) = Cardinality(gone)

\* C9: a setBreakpoints request sends exactly one removeBreakpoint, with its id, for
\* every verified breakpoint of the previous list that the request leaves out, and
\* drops it from the list; it sends none for a breakpoint it keeps or an unverified one
C9_RemovedExactlyOnce == [][C9_RemoveStep]_vars

\* a request that leaves out a verified breakpoint and the removal it sends
C9_Witness ==
    /\ last.op = "setBreakpoints"
    /\ \E k \in DOMAIN outbox :
          /\ outbox[k].method = "Debugger.removeBreakpoint"
          /\ outbox[k].params.breakpointId # Undefined
          /\ \A o \in Tracked : bpObjs[o].id # outbox[k].params.breakpointId

\* the step of C10 when it is a setBreakpoints request
C10_RequestStep ==
    Len(requests') = Len(requests) + 1 =>
        LET list == breakpoints'[last'.path]
        IN  \A i \in DOMAIN list :
                LET o == list[i]
                    position == toGeneratedPosition(sourceMaps, last'.path, bpObjs'[o].line,
                                                    OrElse(bpObjs'[o].column, 0))
                    settings == {k \in SentFor(o) :
                                    outbox'[k].method = "Debugger.setBreakpointByUrl"}
                IN  (o \notin DOMAIN bpObjs \/ ~bpObjs[o].verified) =>
                        IF position # Null
                        THEN /\ Cardinality(settings) = 1
                             /\ \A k \in settings :
                                   outbox'[k].params =
                                      [lineNumber |-> position.lineNumber1Based - 1,
                                       url |-> position.source,
                                       columnNumber |-> position.columnNumber0Based,
                                       condition |-> ""]
                        ELSE /\ SentFor(o) = {}
                             /\ ~bpObjs'[o].verified

\* the step of C10 when it is the answer to the request sent for a breakpoint
C10_AnswerStep ==
    \A id \in DOMAIN cdpMessagePromises :
        ( /\ id \notin answered
          /\ answered' = answered \cup {id}
          /\ cdpMessagePromises[id].cont.kind = "setBreakPointsRequest"
          /\ "result" \in DOMAIN last'.payload
          /\ "breakpointId" \in DOMAIN last'.payload.result ) =>
            /\ bpObjs'[cdpMessagePromises[id].cont.bp].verified
            /\ bpObjs'[cdpMessagePromises[id].cont.bp].id = last'.payload.result.breakpointId

\* C10: for a breakpoint of a setBreakpoints request that is not verified, a position
\* from toGeneratedPosition means exactly one setBreakpointByUrl and, when the answer
\* has a breakpointId, a verified breakpoint with that id; no position means no request
\* and a breakpoint that stays unverified
C10_ResolvedOnceOrNotAtAll == [][C10_RequestStep /\ C10_AnswerStep]_vars

\* a request for two lines: the one with a position is verified by the answer, the one
\* without stays unverified and nothing was sent for it
C10_Witness ==
    /\ last.op = "response"
    /\ last.kind = "setBreakPointsRequest"
    /\ "result" \in DOMAIN last.payload
    /\ "breakpointId" \in DOMAIN last.payload.result
    /\ \E o \in Tracked : bpObjs[o].verified /\ bpObjs[o].id = last.payload.result.breakpointId
    /\ \E o \in Tracked :
          /\ ~bpObjs[o].verified
          /\ SettingsInFlight(o) = {}
          /\ toGeneratedPosition(sourceMaps, FileA, bpObjs[o].line,
                                 OrElse(bpObjs[o].column, 0)) = Null

\* C11: when the runtime answers the setBreakpointByUrl of a setBreakpoints request
\* with an error, the breakpoint stays unverified and, once every runtime call of the
\* request is answered, the setBreakpoints response is sent with one entry per
\* requested breakpoint
C11_ErrorStillAnswered ==
    ( /\ last.op = "response"
      /\ last.kind = "setBreakPointsRequest"
      /\ last.settled = "rejected"
      /\ requests[last.request].waiting = 0 ) =>
        \E n \in DOMAIN dapOut :
            /\ dapOut[n].type = "response"
            /\ dapOut[n].command = "setBreakpoints"
            /\ dapOut[n].request = last.request
            /\ Len(dapOut[n].breakpoints) = Len(requests[last.request].breakpoints)

\* the breakpoints tracked on a source of the map the step that follows registers
OnNewMap ==
    UNION {Range(BreakpointsOf(toAbsoluteFilePath(m.source))) :
              m \in Range(last'.params.sourceMap.mappings)}

\* the source of the new map that names the file of breakpoint o
SourceOf(o) ==
    CHOOSE src \in {m.source : m \in Range(last'.params.sourceMap.mappings)} :
        o \in Range(BreakpointsOf(toAbsoluteFilePath(src)))

RemovalsOf(o) ==
    {k \in DOMAIN outbox' :
        /\ outbox'[k].method = "Debugger.removeBreakpoint"
        /\ outbox'[k].params.breakpointId = bpObjs[o].id}

SettingsOf(o) ==
    {k \in SentFor(o) : outbox'[k].method = "Debugger.setBreakpointByUrl"}

\* the step of C12, a script load that registers a source map
C12_ReloadStep ==
    Len(sourceMaps') = Len(sourceMaps) + 1 =>
        \A o \in OnNewMap :
            bpObjs[o].verified =>
                LET position == toGeneratedPosition(sourceMaps', SourceOf(o), bpObjs[o].line,
                                                    OrElse(bpObjs[o].column, 1) - 1)
                IN  /\ Cardinality(RemovalsOf(o)) = 1
                    /\ \A k \in RemovalsOf(o) : \A j \in SettingsOf(o) : k < j
                    /\ IF position # Null
                       THEN Cardinality(SettingsOf(o)) = 1
                       ELSE SettingsOf(o) = {} /\ ~bpObjs'[o].verified

\* C12, as the code has it: on a script load, for every tracked breakpoint on a source
\* of the new map that is verified, removeBreakpoint for its old id is sent exactly
\* once; when toGeneratedPosition gives a position, setBreakpointByUrl is sent exactly
\* once and after the removal; when it gives none, no setBreakpointByUrl is sent and
\* the breakpoint becomes unverified
C12_RemoveBeforeSet == [][C12_ReloadStep]_vars

\* a script load that removes and sets again a verified breakpoint
C12_Witness ==
    /\ last.op = "sourceMapReady"
    /\ Len(outbox) >= 2
    /\ \E k \in DOMAIN outbox : \E j \in DOMAIN outbox :
          /\ k < j
          /\ outbox[k].method = "Debugger.removeBreakpoint"
          /\ outbox[j].method = "Debugger.setBreakpointByUrl"
          /\ \E o \in Tracked :
                /\ bpObjs[o].verified
                /\ bpObjs[o].id = outbox[k].params.breakpointId
                /\ cdpMessagePromises[outbox[j].id].cont.bp = o

\* C12 as stated: on a script load both requests are sent exactly once for every
\* verified breakpoint on a source of the new map
C12_BothSentOnce ==
    [][Len(sourceMaps') = Len(sourceMaps) + 1 =>
          \A o \in OnNewMap :
              bpObjs[o].verified =>
                  Cardinality(RemovalsOf(o)) = 1 /\ Cardinality(SettingsOf(o)) = 1]_vars

\* a registered map names the file among its sources
Covers(maps, file) ==
    \E n \in DOMAIN maps : \E m \in Range(maps[n][3].mappings) :
        m.source = toSourceMapFilePath(file)

\* C13, the request: a breakpoint newly set while no registered map covers its file is
\* returned unverified, at once and without a runtime request
C13_RequestStep ==
    (Len(requests') = Len(requests) + 1 /\ ~Covers(sourceMaps, last'.path)) =>
        /\ dapOut' # <<>>
        /\ \A i \in DOMAIN breakpoints'[last'.path] :
              breakpoints'[last'.path][i] \notin DOMAIN bpObjs =>
                  /\ dapOut'[1].breakpoints[i].verified = FALSE
                  /\ SentFor(breakpoints'[last'.path][i]) = {}

\* C13, the script load: one setBreakpointByUrl for every unverified breakpoint on a
\* source of the new map that has a generated position, none for one that has not
C13_LoadStep ==
    Len(sourceMaps') = Len(sourceMaps) + 1 =>
        \A o \in OnNewMap :
            ~bpObjs[o].verified =>
                IF toGeneratedPosition(sourceMaps', SourceOf(o), bpObjs[o].line,
                                       OrElse(bpObjs[o].column, 1) - 1) # Null
                THEN Cardinality(SettingsOf(o)) = 1
                ELSE SettingsOf(o) = {} /\ ~bpObjs'[o].verified

\* C13, the answer: a breakpointId in the answer to the request of a script load makes
\* the breakpoint verified with that id
C13_AnswerStep ==
    \A id \in DOMAIN cdpMessagePromises :
        ( /\ id \notin answered
          /\ answered' = answered \cup {id}
          /\ cdpMessagePromises[id].cont.kind = "updateBreakpointsInSource"
          /\ "result" \in DOMAIN last'.payload
          /\ "breakpointId" \in DOMAIN last'.payload.result ) =>
            /\ bpObjs'[cdpMessagePromises[id].cont.bp].verified
            /\ bpObjs'[cdpMessagePromises[id].cont.bp].id = last'.payload.result.breakpointId

\* C13, as the code has it: breakpoints newly set before a map covering the file is
\* registered are returned unverified; when a script with such a map is parsed, each
\* of them for which toGeneratedPosition gives a position gets one setBreakpointByUrl
\* and is verified with the id of the answer; one on a line after the last mapping
\* of the file gets no request and stays unverified
C13_VerifiedAfterLoad == [][C13_RequestStep /\ C13_LoadStep /\ C13_AnswerStep]_vars

\* a breakpoint returned unverified before the script was known, verified by the answer
\* to the request the script load sent for it
C13_Witness ==
    /\ last.op = "response"
    /\ last.kind = "updateBreakpointsInSource"
    /\ "result" \in DOMAIN last.payload
    /\ "breakpointId" \in DOMAIN last.payload.result
    /\ \E r \in DOMAIN requests : \E i \in DOMAIN requests[r].breakpoints :
          /\ requests[r].tracked[i] = Null
          /\ requests[r].status = "responded"
          /\ requests[r].waiting = 0
          /\ bpObjs[requests[r].breakpoints[i]].verified
          /\ bpObjs[requests[r].breakpoints[i]].id = last.payload.result.breakpointId

\* C13 as stated: after the load of a script whose map covers the file, every tracked
\* breakpoint of the file is verified or has its setBreakpointByUrl on the way
C13_EveryOneResolved ==
    last.op = "sourceMapReady" =>
        \A m \in Range(last.params.sourceMap.mappings) :
            \A o \in Range(BreakpointsOf(toAbsoluteFilePath(m.source))) :
                bpObjs[o].verified \/ SettingsInFlight(o) # {}

\* C14: runtime messages take effect in arrival order: when a further scriptParsed or
\* an executionContextsCleared is handled, no earlier scriptParsed is still waiting to
\* register its map and resolve its breakpoints
C14_InArrivalOrder ==
    /\ last.op = "scriptParsed" =>
          /\ Len(parsing) <= 1
          /\ Len(parsing) = 1 => parsing[1] = last.params
    /\ last.op = "executionContextsCleared" => parsing = <<>>

----------------------------------------------------------------------------
(* Pauses *)

\* the last step sent a StoppedEvent to the editor
StoppedEmitted ==
    \E i \in DOMAIN dapOut : "event" \in DOMAIN dapOut[i] /\ dapOut[i].event = "stopped"

\* C15: when a StoppedEvent is emitted, pausedStackFrames and pausedScopeChains hold
\* exactly the frames and the scope chains built from the Debugger.paused event that
\* caused it (no scope chain at all for the pause of the error reporter), nothing of an
\* earlier pause and nothing of a pause handled in between.
C15_StoppedHoldsItsPause ==
    StoppedEmitted =>
        /\ pausedStackFrames = last.built.frames
        /\ pausedScopeChains = last.built.scopeChains

\* C16: once a Debugger.resumed event is handled the collections of the previous pause
\* are gone: pausedStackFrames and pausedScopeChains are empty, so that a stackTrace
\* or scopes request made before the next pause shows nothing of the previous one.
C16_ResumeDiscards ==
    last.op = "resumed" => pausedStackFrames = <<>> /\ pausedScopeChains = <<>>

----------------------------------------------------------------------------
(* Reload *)

C17_ClearStep ==
    /\ received'.clears = received.clears + 1
    /\ last'.op = "executionContextsCleared"

\* C17: the step that handles Runtime.executionContextsCleared leaves no thread, no
\* source map and no handle in the Reference Store, runtime-backed or synthetic; it
\* sends one "exited" thread event for each thread there was, and only after them the
\* output event that clears the console.
C17_ClearResetsAll ==
    [][C17_ClearStep =>
          /\ threads' = <<>>
          /\ sourceMaps' = <<>>
          /\ Handles(variableStore') = {}
          /\ Len(dapOut') = Len(threads) + 1
          /\ \A i \in DOMAIN threads :
                /\ dapOut'[i].event = "thread"
                /\ dapOut'[i].reason = "exited"
                /\ dapOut'[i].threadId = threads[i].id
          /\ dapOut'[Len(threads) + 1].event = "output"
          /\ dapOut'[Len(threads) + 1].category = "console"]_vars

\* a clear that found a thread, a source map and handles of both kinds
C17_Witness ==
    /\ last.op = "executionContextsCleared"
    /\ last.allThreads # <<>>
    /\ last.hadMaps
    /\ last.hadHandles
    /\ Len(dapOut) = 2

----------------------------------------------------------------------------
(* Reference Store *)

\* a step that is not the clear of Runtime.executionContextsCleared
SameEpoch == received'.clears = received.clears

CDPHandles(store) == {e.handle : e \in store.cdp}

ReplHandles(store) == {e.handle : e \in store.repl}

\* C19: the handles of runtime objects and of the adapter's own values come from one
\* counter that only grows inside a lifecycle epoch: no handle is of both kinds, a
\* handle allocated later is larger than every handle allocated before it, and the
\* step that clears one kind clears the other with it.
C19_OneCounter ==
    [][/\ CDPHandles(variableStore') \cap ReplHandles(variableStore') = {}
       /\ SameEpoch =>
             /\ Handles(variableStore) \subseteq Handles(variableStore')
             /\ \A new \in Handles(variableStore') \ Handles(variableStore) :
                   \A old \in Handles(variableStore) : new > old
       /\ ~SameEpoch =>
             /\ CDPHandles(variableStore') = {}
             /\ ReplHandles(variableStore') = {}]_vars

\* handles of both kinds allocated in turn: an object logged to the console, the two
\* lists made for the output event, then the scope of a frame
C19_Witness ==
    /\ last.op = "scopesRequest"
    /\ ~last.again
    /\ \E c \in CDPHandles(variableStore) : \E r \in ReplHandles(variableStore) : c < r
    /\ \E c \in CDPHandles(variableStore) : \E r \in ReplHandles(variableStore) : r < c

\* the non-zero variablesReference values in what a step sends to the editor
ReferencesOf(message) ==
    IF "variablesReference" \in DOMAIN message THEN {message.variablesReference} \ {0}
    ELSE IF "variables" \in DOMAIN message THEN ReferencesIn(message.variables)
    ELSE IF "scopes" \in DOMAIN message THEN ReferencesIn(message.scopes)
    ELSE {}

ReferencesSent(out) == UNION {ReferencesOf(out[i]) : i \in DOMAIN out}

VariablesAnswered(out) ==
    \E i \in DOMAIN out : "command" \in DOMAIN out[i] /\ out[i].command = "variables"

C21_FailedFetchNotAnswered ==
    [][(last'.op = "response" /\ last'.kind = "variablesRequest"
           /\ last'.settled = "rejected")
          => /\ ~VariablesAnswered(dapOut')
             /\ dapOut' = <<>>
             /\ handed' = handed]_vars

\* the fetch of a handle the editor asked for has failed
C21_Witness ==
    /\ last.op = "response"
    /\ last.kind = "variablesRequest"
    /\ last.settled = "rejected"
    /\ "message" \in DOMAIN last.value
    /\ handed # {}

----------------------------------------------------------------------------
(* The Position Translator *)

HasPreludeModule(sm) == \E source \in Range(sm[3].sources) : "__prelude__" \in Range(source)

HasEnvModule(sm) == <<"__env__">> \in Range(sm[3].sources)

\* C22: the line offset stored with a registered source map is the configured prelude
\* line count when the map's sources hold a "__prelude__" module, hold no "__env__"
\* module and the count is positive; in every other case it is 0
C22_LineOffsetRule ==
    \A k \in DOMAIN sourceMaps :
        sourceMaps[k][4] = IF HasPreludeModule(sourceMaps[k]) /\ ~HasEnvModule(sourceMaps[k])
                              /\ expoPreludeLineCount > 0
                           THEN expoPreludeLineCount
                           ELSE 0

\* a positive count, a main bundle that got it, a bundle with "__env__" that got 0
C22_Witness ==
    /\ expoPreludeLineCount > 0
    /\ \E k \in DOMAIN sourceMaps : sourceMaps[k][4] = expoPreludeLineCount
    /\ \E k \in DOMAIN sourceMaps : HasEnvModule(sourceMaps[k]) /\ sourceMaps[k][4] = 0

\* what findOriginalPosition is asked about: script ids, and URLs that differ from the
\* registered ones in host and port, in path, in scheme, in the query string, or do not parse
QueriedScripts ==
    {[scriptId |-> id] : id \in {"1", "2", "4", "9"}}
    \cup {[url |-> u] : u \in {BundleURL, ChunkURL, DeviceBundleURL,
                               [DeviceBundleURL EXCEPT !.path = "/other.bundle"],
                               [DeviceBundleURL EXCEPT !.scheme = "https"],
                               [DeviceBundleURL EXCEPT !.search = "?platform=ios"],
                               InvalidURL}}

GeneratedLines == 1..7
GeneratedColumns == {0, 3, 5}

Parsable(url) == url.scheme # ""

\* the same script, in the words of the specification
SameScript(sm, query) ==
    IF "scriptId" \in DOMAIN query
    THEN sm[2] = query.scriptId
    ELSE /\ Parsable(sm[1]) /\ Parsable(query.url)
         /\ sm[1].scheme = query.url.scheme
         /\ sm[1].path = query.url.path
         /\ sm[1].search = query.url.search

SameScriptMaps(query) == {k \in DOMAIN sourceMaps : SameScript(sourceMaps[k], query)}

\* C23: findOriginalPosition takes a registered map for the queried script exactly when
\* the query is the map's script id or the two URLs agree in all but host and port; the
\* script URL it returns is that of the last such map, and "__script__" when there is none
C23_HostInsensitiveMatch ==
    \A query \in QueriedScripts :
        LET found == findOriginalPosition(query, 3, 0)
            same == SameScriptMaps(query)
        IN  /\ \A k \in DOMAIN sourceMaps :
                  MatchesScript(sourceMaps[k], query) <=> k \in same
            /\ found.scriptURL =
                  IF same = {} THEN UnknownScript
                  ELSE sourceMaps[CHOOSE k \in same : \A j \in same : j <= k][1]

\* the bundle is registered under localhost; the device's URL finds it, and the URLs
\* with another path, scheme or query string do not
C23_Witness ==
    /\ \E k \in DOMAIN sourceMaps : sourceMaps[k][1] = BundleURL
    /\ \A k \in DOMAIN sourceMaps : sourceMaps[k][1] # DeviceBundleURL
    /\ findOriginalPosition([url |-> DeviceBundleURL], 3, 0).scriptURL = BundleURL
    /\ findOriginalPosition([url |-> [DeviceBundleURL EXCEPT !.path = "/other.bundle"]],
                            3, 0).scriptURL = UnknownScript
    /\ findOriginalPosition([url |-> [DeviceBundleURL EXCEPT !.search = "?platform=ios"]],
                            3, 0).scriptURL = UnknownScript
    /\ findOriginalPosition([url |-> InvalidURL], 3, 0).scriptURL = UnknownScript
    /\ pausedStackFrames # <<>>

\* the mapping of a registered map whose range holds the generated (line, column), the
\* line being the one the runtime reports; Null outside every mapped range
MappedRange(sm, line, column) ==
    LET cands == {m \in Range(sm[3].mappings) :
                     m.generatedLine = line - sm[4] /\ m.generatedColumn <= column}
    IN  IF cands = {} THEN Null
        ELSE CHOOSE m \in cands : \A n \in cands : n.generatedColumn <= m.generatedColumn

\* findOriginalPosition of a generated position of the map's script, then
\* toGeneratedPosition of the result
RoundTrip(sm, line, column) ==
    LET original == findOriginalPosition([scriptId |-> sm[2]], line, column)
    IN  toGeneratedPosition(sourceMaps, original.sourceURL, original.lineNumber1Based,
                            original.columnNumber0Based)

\* the round trip ends in the mapped range it started in
RoundTripHolds(sm, line, column) ==
    LET range == MappedRange(sm, line, column)
        back == RoundTrip(sm, line, column)
    IN  range # Null =>
           /\ back # Null
           /\ back.source = sm[1]
           /\ back.lineNumber1Based = range.generatedLine + sm[4]
           /\ back.columnNumber0Based = range.generatedColumn

OriginalFiles == {FileA, <<"app", "b.js">>}
OriginalLines == {1, 10, 12, 20, 25}
OriginalColumns == {0, 2, 3}

\* what the k-th registered map yields for the original position, Null when nothing
YieldOf(k, file, line, column) ==
    generatedPositionFor(sourceMaps[k][3], toSourceMapFilePath(file), line, column)

Yielding(file, line, column) ==
    {k \in DOMAIN sourceMaps : YieldOf(k, file, line, column) # Null}

\* C25: toGeneratedPosition returns null exactly when no registered map yields a generated
\* position; otherwise its line is the generated line of one of the maps plus the line
\* offset of that map, and its source is the URL of that map
C25_GeneratedOfOneMap ==
    \A file \in OriginalFiles : \A line \in OriginalLines : \A column \in OriginalColumns :
        LET position == toGeneratedPosition(sourceMaps, file, line, column)
        IN  /\ position = Null <=> Yielding(file, line, column) = {}
            /\ position # Null =>
                  \E k \in Yielding(file, line, column) :
                      /\ position.source = sourceMaps[k][1]
                      /\ position.lineNumber1Based
                            = YieldOf(k, file, line, column).line + sourceMaps[k][4]
                      /\ position.columnNumber0Based = YieldOf(k, file, line, column).column

\* a breakpoint was asked for while two maps with different line offsets yield a position
\* for line 10 of the file, and none yields one for line 25
C25_Witness ==
    /\ requests # <<>>
    /\ \E j, k \in Yielding(FileA, 10, 0) :
          sourceMaps[j][1] # sourceMaps[k][1] /\ sourceMaps[j][4] # sourceMaps[k][4]
    /\ toGeneratedPosition(sourceMaps, FileA, 10, 0) # Null
    /\ toGeneratedPosition(sourceMaps, FileA, 25, 0) = Null

----------------------------------------------------------------------------
(* The Pause Reconstructor: the stack of an uncaught exception *)

\* the entries of the stack the runtime holds for the error of a pause
StackEntriesOf(params) ==
    LET stack == FindVariable(PropertiesOf(LocalScopeObjectId(params)), "stack")
    IN  IF stack = Null THEN <<>> ELSE PropertiesOf(stack.objectId)

\* the numeric keys among them
KeysOf(params) ==
    {ParseInt(StackEntriesOf(params)[i].name) :
        i \in {j \in DOMAIN StackEntriesOf(params) : IsIndex(StackEntriesOf(params)[j].name)}}

\* the frames lie at their keys, carry them as ids, and every other slot is empty
PlacedByKey(frames, keys) ==
    /\ \A key \in keys : key + 1 \in DOMAIN frames
    /\ \A i \in DOMAIN frames :
          IF i - 1 \in keys
          THEN frames[i] # Null /\ frames[i].id = i - 1
          ELSE frames[i] = Null
    /\ frames # <<>> => frames[Len(frames)] # Null

\* the handleDebuggerPaused calls that end in this step with the stop announced
StoppingNow(t) ==
    /\ t \in DOMAIN pauseTasks /\ t \in DOMAIN pauseTasks'
    /\ pauseTasks[t].status = "running" /\ pauseTasks'[t].status = "stopped"

\* C26: when handleDebuggerPaused ends for an uncaught exception, pausedStackFrames has
\* the frame of every entry with a numeric name at the index the name gives, with that
\* index as id, and holes elsewhere, in whatever order the properties of the entries
\* came; an entry with another name gives no frame
C26_FramesPlacedByKey ==
    [][\A t \in DOMAIN pauseTasks :
          StoppingNow(t) => PlacedByKey(pausedStackFrames', KeysOf(pauseTasks[t].params))]_vars

\* the stack with entries "2" and "0": the properties of "2" were asked for first and
\* came last, and the frames are h at index 2, g at index 0 and a hole between them
C26_Witness ==
    /\ last.op = "response" /\ last.built # Null
    /\ \E id \in answered : id > last.id
    /\ Len(pausedStackFrames) = 3
    /\ pausedStackFrames[1] # Null /\ pausedStackFrames[1].id = 0
    /\ pausedStackFrames[1].name = "g"
    /\ pausedStackFrames[2] = Null
    /\ pausedStackFrames[3] # Null /\ pausedStackFrames[3].id = 2
    /\ pausedStackFrames[3].name = "h"

\* the value of a named property of a runtime object, or the default when it has none
FieldOr(properties, name, default) ==
    IF \E i \in DOMAIN properties : properties[i].name = name
    THEN properties[CHOOSE i \in DOMAIN properties : properties[i].name = name].value
    ELSE default

\* the properties the runtime holds for the entry of the stack with the numeric key
EntryPropertiesOf(params, key) ==
    LET entries == StackEntriesOf(params)
        entry == entries[CHOOSE i \in DOMAIN entries :
                            IsIndex(entries[i].name) /\ ParseInt(entries[i].name) = key]
    IN  IF "objectId" \in DOMAIN entry THEN PropertiesOf(entry.objectId) ELSE <<>>

\* the frame of an entry has the entry's method name or "", and for an entry without a
\* file the entry's line and column or 0
EntryDefaults(frame, properties) ==
    /\ frame.name = FieldOr(properties, "methodName", "")
    /\ FieldOr(properties, "file", InvalidURL) = InvalidURL =>
          /\ frame.source = Source(UnknownScript, UnknownSource)
          /\ frame.line = ParseInt(FieldOr(properties, "lineNumber", "0"))
          /\ frame.column = ParseInt(FieldOr(properties, "column", "0"))

\* the stop of an exception is announced with the message and isFatal of the local
\* scope, or with empty ones
AnnouncedWithDefaults(out, params) ==
    LET scope == PropertiesOf(LocalScopeObjectId(params))
    IN  out = << StoppedEvent("exception", threads[1].id, FieldOr(scope, "message", "")),
                 Event("RNIDE_paused", [reason |-> "exception",
                                        isFatal |-> FieldOr(scope, "isFatal", "")]) >>

----------------------------------------------------------------------------
(* The Pause Reconstructor: an ordinary pause *)

\* the frame shown for a call frame: its index as id, its function, and the position
\* findOriginalPosition gives for it, which is the generated one when no registered map
\* is of its script
ShownFor(frame, cdpFrame, index) ==
    LET pos == findOriginalPosition([scriptId |-> cdpFrame.location.scriptId],
                                    cdpFrame.location.lineNumber + 1,
                                    cdpFrame.location.columnNumber)
    IN  /\ frame.id = index
        /\ frame.name = cdpFrame.functionName
        /\ frame.source = Source(pos.scriptURL, pos.sourceURL)
        /\ frame.line = pos.lineNumber1Based
        /\ frame.column = pos.columnNumber0Based + 1
        /\ (\A k \in DOMAIN sourceMaps : sourceMaps[k][2] # cdpFrame.location.scriptId) =>
              /\ frame.line = cdpFrame.location.lineNumber + 1
              /\ frame.column = cdpFrame.location.columnNumber + 1

\* C27: after Debugger.paused with n call frames that is not the error reporter's,
\* pausedStackFrames has n frames in the order of the call frames, frame i with id i and
\* the original position of call frame i, and pausedScopeChains has the n scope chains
\* as they came
C27_NormalPauseFrames ==
    [][(last'.op = "paused" /\ ~IsExceptionPause(last'.params)) =>
          LET callFrames == last'.params.callFrames
          IN  /\ DOMAIN pausedStackFrames' = DOMAIN callFrames
              /\ DOMAIN pausedScopeChains' = DOMAIN callFrames
              /\ \A i \in DOMAIN callFrames :
                    /\ ShownFor(pausedStackFrames'[i], callFrames[i], i - 1)
                    /\ pausedScopeChains'[i] = callFrames[i].scopeChain]_vars

\* two call frames, the first in the registered bundle and shown in /app/a.js, the
\* second in a chunk that is not registered and shown where the runtime says
C27_Witness ==
    /\ last.op = "paused"
    /\ Len(last.params.callFrames) = 2
    /\ \A k \in DOMAIN sourceMaps : sourceMaps[k][2] # "2"
    /\ Len(pausedStackFrames) = 2
    /\ pausedStackFrames[1].id = 0 /\ pausedStackFrames[1].name = "f"
    /\ pausedStackFrames[1].source.path = FileA
    /\ pausedStackFrames[1].line \in {10, 20}
    /\ pausedStackFrames[2].id = 1 /\ pausedStackFrames[2].name = "g"
    /\ pausedStackFrames[2].source.path = UnknownSource
    /\ pausedStackFrames[2].line = 2 /\ pausedStackFrames[2].column = 1
    /\ Len(pausedScopeChains) = 2
    /\ pausedScopeChains[1] # pausedScopeChains[2]

----------------------------------------------------------------------------
(* The Position Translator: several maps, no map *)

\* what findOriginalPosition returns when the map is the only one consulted
OfMapAlone(sm, line, column) ==
    LET pos == originalPositionFor(sm[3], line - sm[4], column)
    IN  [sourceURL |-> IF pos = Null THEN UnknownSource ELSE toAbsoluteFilePath(pos.source),
         lineNumber1Based |-> IF pos = Null THEN line ELSE pos.line,
         columnNumber0Based |-> IF pos = Null THEN column ELSE pos.column,
         scriptURL |-> sm[1]]

LastOf(indices) == CHOOSE k \in indices : \A j \in indices : j <= k

\* C29: when several registered maps are of the queried script, source, line, column and
\* script URL returned by findOriginalPosition are all those of the map registered last
C29_LastMatchWinsEntirely ==
    \A query \in QueriedScripts : \A line \in GeneratedLines : \A column \in GeneratedColumns :
        SameScriptMaps(query) # {} =>
            findOriginalPosition(query, line, column)
               = OfMapAlone(sourceMaps[LastOf(SameScriptMaps(query))], line, column)

\* C30: when no registered map is of the queried script, findOriginalPosition returns line
\* and column as given with the source "__source__" and the script URL "__script__"; when
\* one map is of the script it is consulted at the line minus its line offset, and
\* without a mapping there line and column are returned as given with the source
\* "__source__"
C30_FallbackAndOffset ==
    \A query \in QueriedScripts : \A line \in GeneratedLines : \A column \in GeneratedColumns :
        LET found == findOriginalPosition(query, line, column)
            same == SameScriptMaps(query)
            sm == sourceMaps[LastOf(same)]
            range == MappedRange(sm, line, column)
        IN  /\ same = {} =>
                  found = [sourceURL |-> UnknownSource, lineNumber1Based |-> line,
                           columnNumber0Based |-> column, scriptURL |-> UnknownScript]
            /\ (Cardinality(same) = 1 /\ range = Null) =>
                  found = [sourceURL |-> UnknownSource, lineNumber1Based |-> line,
                           columnNumber0Based |-> column, scriptURL |-> sm[1]]
            /\ (Cardinality(same) = 1 /\ range # Null) =>
                  found = [sourceURL |-> toAbsoluteFilePath(range.source),
                           lineNumber1Based |-> range.originalLine,
                           columnNumber0Based |-> range.originalColumn,
                           scriptURL |-> sm[1]]

\* the bundle is registered with a line offset: line 5 of the script is line 3 of the
\* map, line 4 has no mapping, and script "9" has no map
C30_Witness ==
    /\ pausedStackFrames # <<>>
    /\ \E k \in DOMAIN sourceMaps : sourceMaps[k][2] = "1" /\ sourceMaps[k][4] = 2
    /\ SameScriptMaps([scriptId |-> "9"]) = {}
    /\ findOriginalPosition([scriptId |-> "9"], 5, 0).scriptURL = UnknownScript
    /\ findOriginalPosition([scriptId |-> "1"], 5, 0).sourceURL = FileA
    /\ findOriginalPosition([scriptId |-> "1"], 5, 0).lineNumber1Based = 10
    /\ findOriginalPosition([scriptId |-> "1"], 4, 0).sourceURL = UnknownSource
    /\ findOriginalPosition([scriptId |-> "1"], 4, 0).lineNumber1Based = 4

----------------------------------------------------------------------------
(* The collection of source maps *)

\* C31: the collection of source maps changes only by the entry that scriptParsed puts at
\* its end, which leaves the entries before it as they are, and by
\* Runtime.executionContextsCleared, which empties it
C31_MapsAppendOnly ==
    [][\/ sourceMaps' = sourceMaps
       \/ /\ last'.op = "sourceMapReady"
          /\ Len(sourceMaps') = Len(sourceMaps) + 1
          /\ SubSeq(sourceMaps', 1, Len(sourceMaps)) = sourceMaps
          /\ sourceMaps'[Len(sourceMaps')][1] = last'.params.url
          /\ sourceMaps'[Len(sourceMaps')][2] = last'.params.scriptId
       \/ /\ last'.op = "executionContextsCleared"
          /\ sourceMaps' = <<>>]_vars

\* a second script has been registered after a first one of another URL
C31_Witness ==
    /\ last.op = "sourceMapReady"
    /\ Len(sourceMaps) = 2
    /\ sourceMaps[1][1] # sourceMaps[2][1]
    /\ sourceMaps[2][2] = last.params.scriptId

----------------------------------------------------------------------------
(* The breakpoints across script loads *)

\* C32: a verified breakpoint whose re-resolution on a script load fails becomes
\* unverified and no longer carries a runtime id
C32_FailedReResolutionClearsId ==
    [][\A o \in DOMAIN bpObjs :
          (bpObjs[o].verified /\ ~bpObjs'[o].verified) => bpObjs'[o].id = Undefined]_vars

----------------------------------------------------------------------------
(* The listener of the connection *)

\* what the adapter itself holds
AdapterState ==
    <<connection, sourceMapAliases, expoPreludeLineCount, threads, sourceMaps, parsing,
      cdpMessageId, cdpMessagePromises, bpObjs, breakpoints, requests, pausedStackFrames,
      pausedScopeChains, variableStore, pauseTasks>>

CarriesResultOrError(message) ==
    "result" \in DOMAIN message \/ "error" \in DOMAIN message

\* the handler a method name selects
HandlerOf(method) ==
    CASE method = "Runtime.executionContextCreated" -> "executionContextCreated"
      [] method = "Debugger.scriptParsed" -> "scriptParsed"
      [] method = "Debugger.paused" -> "paused"
      [] method = "Debugger.resumed" -> "resumed"
      [] method = "Runtime.executionContextsCleared" -> "executionContextsCleared"
      [] method = "Runtime.consoleAPICalled" -> "consoleAPICalled"
      [] OTHER -> "ignored"

\* C33: a message carrying result or error only settles the pending entry of its id, and
\* does nothing when there is none, whatever method it names; a message carrying neither
\* runs the handler of its method and leaves every pending entry; a message of an
\* unrecognized method changes nothing and emits nothing
C33_ResponsesSettleEventsDispatch ==
    [][\A message \in Messages :
          OnMessage(message) =>
             /\ CarriesResultOrError(message) =>
                   /\ last'.op = "response"
                   /\ received' = received
                   /\ <<threads, sourceMaps, parsing, pausedScopeChains>>'
                         = <<threads, sourceMaps, parsing, pausedScopeChains>>
                   /\ DOMAIN cdpMessagePromises' \cap DOMAIN cdpMessagePromises
                         = DOMAIN cdpMessagePromises \ {message.id}
                   /\ message.id \notin DOMAIN cdpMessagePromises =>
                         /\ AdapterState' = AdapterState
                         /\ dapOut' = <<>>
                         /\ outbox' = <<>>
             /\ ~CarriesResultOrError(message) =>
                   /\ last'.op = HandlerOf(message.method)
                   /\ \A id \in DOMAIN cdpMessagePromises :
                         /\ id \in DOMAIN cdpMessagePromises'
                         /\ cdpMessagePromises'[id] = cdpMessagePromises[id]
                   /\ HandlerOf(message.method) = "ignored" =>
                         /\ AdapterState' = AdapterState
                         /\ dapOut' = <<>>
                         /\ outbox' = <<>>]_vars

\* a response whose id no request is waiting for has arrived while the local scope of a
\* stop was being fetched
C33_Witness ==
    /\ last.op = "response"
    /\ last.settled = "nothing"
    /\ last.id \notin DOMAIN cdpMessagePromises
    /\ DOMAIN cdpMessagePromises # {}
    /\ \E t \in DOMAIN pauseTasks : pauseTasks[t].status = "running"

----------------------------------------------------------------------------
(* The console of the application *)

FirstArgumentIsInternal(params) ==
    /\ Len(params.args) > 0
    /\ "value" \in DOMAIN params.args[1]
    /\ params.args[1].value = "__RNIDE_INTERNAL"

\* C34: a console call whose first argument has the value "__RNIDE_INTERNAL" sends
\* nothing to the editor and allocates no handle; any other console call sends one
\* OutputEvent and then one RNIDE_consoleLog event, and nothing else
C34_InternalLogsAreSilent ==
    [][last'.op = "consoleAPICalled" =>
          IF FirstArgumentIsInternal(last'.params)
          THEN /\ dapOut' = <<>>
               /\ variableStore' = variableStore
               /\ handed' = handed
          ELSE /\ Len(dapOut') = 2
               /\ dapOut'[1].event = "output"
               /\ dapOut'[2].event = "RNIDE_consoleLog"]_vars

\* a log of the IDE that carries the three arguments of the wrapper has been dropped
C34_Witness ==
    /\ last.op = "consoleAPICalled"
    /\ FirstArgumentIsInternal(last.params)
    /\ Len(last.params.args) > 3
    /\ dapOut = <<>>

----------------------------------------------------------------------------
(* The breakpoints of the runtime *)

\* the breakpoint ids the runtime has returned: it numbers them from 1
ReturnedIds == 1..(rtNextBreakpointId - 1)

\* nothing is in flight: every setBreakpoints request is answered, no source map is being
\* parsed, and the runtime has answered every message
Quiescent ==
    /\ \A r \in DOMAIN requests : requests[r].status = "responded"
    /\ parsing = <<>>
    /\ DOMAIN cdpMessagePromises = {}

\* C35: once nothing is in flight, every breakpoint id the runtime has returned and that
\* no Debugger.removeBreakpoint has named is the id of exactly one verified tracked
\* breakpoint
C35_NoOrphanedRuntimeBreakpoint ==
    Quiescent =>
       \A id \in ReturnedIds \ rtRemoved :
          Cardinality({o \in Tracked : bpObjs[o].verified /\ bpObjs[o].id = id}) = 1

----------------------------------------------------------------------------
(* The source maps across a reload *)

\* C36: executionContextsCleared leaves no source map in the collection, and no map of a
\* scriptParsed event that arrived before it is put there afterwards, also when the
\* parsing of its source map was awaited while the clear was handled
C36_NoMapOfAnEarlierScript ==
    [][/\ last'.op = "executionContextsCleared" => sourceMaps' = <<>>
       /\ last'.op = "sourceMapReady" => received'.stale = received.stale]_vars

----------------------------------------------------------------------------
(* The two ways a breakpoint is resolved *)

\* the columns the editor can name, 1-based, or none
EditorColumns == {Undefined, 1, 3}

\* the paths the registered maps name a file of the editor by
SourceMapPathsOf(sourcePath) ==
    {m.source : m \in UNION {Range(sourceMaps[i][3].mappings) : i \in DOMAIN sourceMaps}}
       \cap {src \in UNION {{m.source : m \in Range(sourceMaps[i][3].mappings)} :
                               i \in DOMAIN sourceMaps} :
                toAbsoluteFilePath(src) = sourcePath}

\* what setBreakPointsRequest passes to setCDPBreakpoint for a breakpoint
ArgumentsOfRequest(sourcePath, bp) ==
    [file |-> sourcePath, line |-> bp.line, column |-> OrElse(bp.column, 0)]

\* what updateBreakpointsInSource passes to setCDPBreakpoint for the same breakpoint
ArgumentsOfLoad(sourceMapPath, bp) ==
    [file |-> sourceMapPath, line |-> bp.line, column |-> OrElse(bp.column, 1) - 1]

MessageFor(arguments) ==
    setCDPBreakpoint(sourceMaps, arguments.file, arguments.line, arguments.column,
                     NoContinuation)

\* C37: for a breakpoint of the editor and the registered maps, the script-load
\* re-resolution and setBreakpoints pass the same line and column for the same file to
\* toGeneratedPosition, and send the same Debugger.setBreakpointByUrl
C37_SameResolutionOnBothPaths ==
    \A sourcePath \in EditorPaths : \A line \in RequestedLines : \A column \in EditorColumns :
       \A sourceMapPath \in SourceMapPathsOf(sourcePath) :
          LET bp == [line |-> line, column |-> column]
              ofRequest == ArgumentsOfRequest(sourcePath, bp)
              ofLoad == ArgumentsOfLoad(sourceMapPath, bp)
          IN  /\ toSourceMapFilePath(ofLoad.file) = toSourceMapFilePath(ofRequest.file)
              /\ ofLoad.line = ofRequest.line
              /\ ofLoad.column = ofRequest.column
              /\ MessageFor(ofLoad) = MessageFor(ofRequest)

----------------------------------------------------------------------------
(* The thread of a stop *)

\* C38: a Debugger.paused or Debugger.resumed event is handled with a thread in the
\* list, and a StoppedEvent or ContinuedEvent carries the id of the first thread of the
\* list, which holds the threads created since the last executionContextsCleared
C38_StopsHaveAThread ==
    [][/\ last'.op \in {"paused", "resumed"} => threads # <<>>
       /\ \A i \in DOMAIN dapOut' :
             ("event" \in DOMAIN dapOut'[i] /\ dapOut'[i].event \in {"stopped", "continued"})
                => /\ threads' # <<>>
                   /\ dapOut'[i].threadId = threads'[1].id]_vars

----------------------------------------------------------------------------
(* What a reload leaves alone *)

\* C39: executionContextsCleared leaves the tracked breakpoints as they are, every path
\* with its list and every breakpoint with its line, column, verified flag and runtime
\* id, and leaves the pending correlations and the correlation-id counter as they are
C39_ClearKeepsBreakpointsAndCorrelations ==
    [][last'.op = "executionContextsCleared" =>
          /\ breakpoints' = breakpoints
          /\ bpObjs' = bpObjs
          /\ cdpMessagePromises' = cdpMessagePromises
          /\ cdpMessageId' = cdpMessageId]_vars

\* a clear has been handled while a verified breakpoint was tracked and a request to the
\* runtime was awaiting its answer
C39_Witness ==
    /\ last.op = "executionContextsCleared"
    /\ \E o \in Tracked : bpObjs[o].verified /\ bpObjs[o].id # Undefined
    /\ DOMAIN cdpMessagePromises # {}

----------------------------------------------------------------------------
(* retry *)

\* the first call of fn that resolves, 0 if none of the calls made does
FirstResolved(call) ==
    LET resolved == {k \in 1..call.calls : call.fn[k] = "resolves"}
    IN  IF resolved = {} THEN 0 ELSE CHOOSE k \in resolved : \A j \in resolved : k <= j

\* C40: retry(fn, retriesLeft) calls fn at most retriesLeft + 1 times, and once when
\* retriesLeft is negative, so it terminates; it returns the value of the first call
\* that resolves and makes no call after it; it throws when every call has rejected,
\* with the error of the last call
C40_RetryIsBounded ==
    retryCall.pc # "none" =>
       /\ retryCall.calls <= (IF retryCall.given > 0 THEN retryCall.given ELSE 0) + 1
       /\ FirstResolved(retryCall) # 0 =>
             /\ retryCall.calls = FirstResolved(retryCall)
             /\ retryCall.pc = "returned"
             /\ retryCall.value = FirstResolved(retryCall)
       /\ retryCall.pc = "thrown" =>
             /\ FirstResolved(retryCall) = 0
             /\ retryCall.error = retryCall.calls

====
